---- MODULE Spec2Model ----
(***************************************************************************)
(* Repetition counting and edge/threshold event detection of the personal  *)
(* trainer: JointTracker delivers frames to one registered handler, which  *)
(* is a BaseExerciseDetector (SquatDetector, or a subclass with arbitrary  *)
(* predicates) or one of the three joint event handlers.                   *)
(*                                                                         *)
(* Lengths that the source keeps as floats in normalized image coordinates *)
(* are kept here in hundredths (0.15 is 15); angles are in degrees.  The   *)
(* wall clock is the index of the frame being processed.                   *)
(***************************************************************************)
EXTENDS Integers, Sequences, FiniteSets, TLC

\* ------------------------------------------------------------------ bounds
MaxFrames == 6
MaxCooldown == 3

\* --------------------------------------------------------------- constants
knee_angle_threshold == 100
depth_threshold == 15
standing_angle == 160
standing_depth == 25
ExcellentDepth == 10
FairDepth == 20
DepthDefault == 100
threshold_distance == 10
angle_threshold == 90
\* thresholds of the other registered detectors
ShoulderPress_elbow_extension_threshold == 160
ShoulderPress_wrist_height_threshold == 30
ShoulderPress_starting_angle == 140
ShoulderPress_starting_height == -15
Deadlift_hip_angle_threshold == 160
Deadlift_bottom_hip_angle == 100
Deadlift_torso_angle_threshold == 30
RomanianDeadlift_hip_angle_threshold == 165
RomanianDeadlift_bottom_hip_angle == 100
RomanianDeadlift_knee_angle_min == 160
RomanianDeadlift_torso_angle_bottom == 80
CalfRaise_heel_lift_threshold == 8
CalfRaise_ankle_angle_extended == 135
CalfRaise_ankle_angle_flexed == 100
BarbellRow_elbow_flexion_threshold == 90
BarbellRow_torso_angle_min == 45
BarbellRow_torso_angle_max == 80
BicepCurl_elbow_flexion_threshold == 50
BicepCurl_elbow_extension_threshold == 160
BenchPress_elbow_extension_threshold == 165
BenchPress_elbow_flexion_threshold == 90
BenchPress_wrist_shoulder_distance == 12
FrontRaise_wrist_height_threshold == -20
FrontRaise_arm_angle_threshold == 100
DumbbellFly_wrist_distance_closed == 15
DumbbellFly_wrist_distance_open == 50
DumbbellFly_elbow_angle_min == 150

\* --------------------------------------------------------------- utilities
\* Optional values: None, or Some(v)
None == << >>
Some(v) == <<v>>
The(o) == o[1]
EmptyDict == << >>
Get(d, k, default) == IF k \in DOMAIN d THEN d[k] ELSE default

\* handler objects registered with a JointTracker
HandlerObjects == {"first", "second"}
\* handler objects whose on_joints_detected can raise
Raising == {"second"}
\* landmark sets a frame with a pose can carry
LandmarkSets == {1, 2}
\* registrations and frames explored for a JointTracker
MaxHandlers == 3
MaxTrackerFrames == 3
\* window sizes and measurements handed to a MovingAverage, and how many
MaxWindow == 2
Measurements == {1, 2, 4}
MaxAdded == 4
\* frames handed to the stand-alone shoulder press detector
MaxPressFrames == 5
\* calls of WebTracker.start explored with their capture threads, and frames
\* a capture thread reads
MaxStarts == 2
CaptureThreads == 1..MaxStarts
\* shoulder_press.py: thresholds of the stand-alone detector; heights in
\* hundredths, negative above the shoulders
Standalone_elbow_angle_threshold == 160
Standalone_wrist_height_threshold == 30
Standalone_bent_angle == 140
Standalone_lowered_height == 15
\* average elbow angles and wrist heights a frame can show
PressAngles == {100, 150, 165, 175}
PressHeights == {0, -20, -32, -40}
\* frames handed to the stand-alone squat detector
MaxSquatFrames == 4
\* is_standing_position of src/squat.py: degrees, and hundredths of the
\* normalised hip-knee distance
Standalone_standing_angle == 160
Standalone_standing_depth == 25
\* thresholds a SquatDetector can be built with: the defaults of __init__ and
\* a pair above the fixed limits of is_standing_position
SquatAngleThresholds == {100, 170}
SquatDepthThresholds == {15, 30}
\* average knee angles and squat depths a frame can show
SquatAngles == {90, 130, 165}
SquatDepths == {10, 20, 27}

VARIABLES
  handler,                \* kind of the handler registered with the tracker
  exercise,               \* which BaseExerciseDetector subclass it is
  cooldown_frames,
  axis,                   \* JointCrossingHandler: 'x', 'y' or 'z'
  log_base,               \* content of the log file when the detector was built
  sink_reliable,          \* whether every append to the log file succeeds
  now,                    \* logical clock: frames delivered and constructions
  frame,                  \* the last frame delivered
  rep_count,
  in_rep_position,
  returned_to_start,
  rep_start_time,
  frames_since_last_rep,
  current_metrics,
  best_metrics,
  log,                    \* lines appended to the log file
  started,                \* number of on_rep_started notifications
  completed,              \* on_rep_completed notifications, in order
  comparison,             \* JointAngleHandler: 'less' or 'greater'
  last_relative_position, \* JointCrossingHandler
  was_close,              \* JointProximityHandler
  threshold_crossed,      \* JointAngleHandler
  frames_since_last_event,
  events,                 \* calls of the handler's event callback, in order
  raised,                 \* exceptions surfaced to the callers, in order
  stats,                  \* result of the last operation if it was get_stats
  request,                \* arguments of the last operation if it built a handler
  assessed,               \* result of the last operation if it was assess_rep_quality
  probe,                  \* a detector class and a metrics snapshot
  verdict,                \* what the two predicates of the class say of it
  last_fire,              \* history: frame index of the last firing
  scen,                   \* history: matched prefix of ScenarioFrames
  cycle_base,             \* history: rep_count at the last entry
  cycle_starts,           \* history: at-start frames seen since the last entry
  cycle_cool,             \* history: cooldown state at the first of them
  cycle_osc,              \* history: left (1) and re-entered (2) the rep position
  last_observed,          \* history: last value an edge handler computed
  cycle_min,              \* history: least squat_depth merged since the entry
  pose_lost,              \* history: a frame without a pose since the last firing
  edge_dropped,           \* history: an edge did not fire and its condition still holds
  zero_crossing,          \* history: a crossing through a signal of exactly zero
  initial_file,           \* history: content of the log file at the start
  running,                \* WebTracker.running
  thread,                 \* the capture thread of the WebTracker
  response,               \* reply to the last request if it was /start_exercise
  event_handlers,         \* JointTracker.event_handlers
  prev_landmarks,         \* JointTracker.prev_landmarks
  tracking,               \* JointTracker: 'built', 'running', 'stopped' or 'failed'
  invoked,                \* on_joints_detected calls of the last frame, in order
  calls,                  \* per handler object: its own state, a call counter
  frames_seen,            \* history: pose of every frame processed, in order
  window_size,            \* MovingAverage.window_size
  values,                 \* MovingAverage.values
  average,                \* what the last call on the MovingAverage gave back
  added,                  \* history: the values added since the last reset
  press_count,            \* shoulder_press.py: ShoulderPressDetector.press_count
  in_press_position,
  arms_returned,
  press_start_time,
  max_extension_achieved,
  max_height_achieved,
  press_log,              \* lines appended to shoulder_press_log.txt
  press_frame,            \* the last frame handed to the press detector
  press_clock,            \* frames handed to the press detector
  press_failed,           \* an append to the log raised and ended the loop
  self_tracker,           \* WebTracker.tracker: None or the tracker of a start
  self_detector,          \* WebTracker.detector: None or the detector of a start
  self_thread,            \* WebTracker.thread: None or the thread of a start
  loops,                  \* where each capture thread is in _capture_loop
  control,                \* where the request thread is in start or stop
  polling,                \* where the request thread of /stats is in get_stats
  asked,                  \* history: the threads stop has told to end
  resumed,                \* history: those of them that went on looping
  drove,                  \* history: <<thread, tracker>> pairs of handler calls
  squat_angle_threshold,  \* squat.py: SquatDetector.angle_threshold, as configured
  squat_depth_threshold,  \* SquatDetector.depth_threshold, in hundredths
  squat_count,            \* SquatDetector.squat_count
  in_squat_position,
  returned_to_standing,
  squat_start_time,
  min_angle_achieved,
  min_depth_achieved,
  squat_log,              \* lines appended to squat_log.txt
  squat_frame,            \* the last frame handed to the squat detector
  squat_clock,            \* frames handed to the squat detector
  squat_failed,           \* an append to the log raised and ended the loop
  squat_entries,          \* history: how often the squat position was entered
  squat_step              \* history: what the last call did, counted and entered

cfgvars == <<handler, exercise, cooldown_frames, comparison, axis>>
detvars == <<rep_count, in_rep_position, returned_to_start, rep_start_time,
             frames_since_last_rep, current_metrics, best_metrics, log,
             started, completed>>
edgevars == <<last_relative_position, was_close, threshold_crossed,
              frames_since_last_event, events>>
histvars == <<last_fire, scen, cycle_base, cycle_starts, cycle_cool, cycle_osc,
              last_observed, cycle_min, pose_lost, edge_dropped, zero_crossing>>
filevars == <<log_base, sink_reliable, initial_file>>
outvars == <<raised, stats, request, assessed>>
probevars == <<probe, verdict>>
webvars == <<running, thread, response>>
\* what belongs to the handler under study and to its callers
corevars == <<cfgvars, now, frame, detvars, edgevars, histvars, filevars, outvars,
              probevars>>
\* what belongs to the other components
trackvars == <<event_handlers, prev_landmarks, tracking, invoked, calls, frames_seen>>
avgvars == <<window_size, values, average, added>>
pressvars == <<press_count, in_press_position, arms_returned, press_start_time,
               max_extension_achieved, max_height_achieved, press_log,
               press_frame, press_clock, press_failed>>
racevars == <<self_tracker, self_detector, self_thread, loops, control, polling,
              asked, resumed, drove>>
squatvars == <<squat_angle_threshold, squat_depth_threshold, squat_count,
               in_squat_position, returned_to_standing, squat_start_time,
               min_angle_achieved, min_depth_achieved, squat_log, squat_frame,
               squat_clock, squat_failed, squat_entries, squat_step>>

libvars == <<trackvars, avgvars, pressvars, racevars, squatvars>>
sidevars == <<webvars, libvars>>
vars == <<corevars, sidevars>>

\* ------------------------------------------------------------------ frames
NoData == << >>
NoFrame == [pose |-> FALSE, joints |-> FALSE, data |-> NoData]
NoPose == [pose |-> FALSE, joints |-> FALSE, data |-> NoData]
MissingJoint == [pose |-> TRUE, joints |-> FALSE, data |-> NoData]
Valid(d) == [pose |-> TRUE, joints |-> TRUE, data |-> d]

Snap(a, d) == [knee_angle |-> a, squat_depth |-> d]

\* knee angle and hip-knee distance SquatDetector.calculate_metrics can yield
SquatSnapshots ==
  {Snap(170, 30), Snap(130, 20), Snap(95, 20), Snap(95, 10), Snap(90, 8)}

\* metrics of a subclass whose predicates are arbitrary functions of them
GenericSnapshots ==
  [in_pos : BOOLEAN, at_start : BOOLEAN, value : {1, 2}]

\* metrics of the other registered detectors: at the starting position, in
\* the rep position with two grades, and between the two positions
ShoulderPressSnapshots ==
  {[elbow_angle |-> 130, wrist_height |-> 0],
   [elbow_angle |-> 150, wrist_height |-> -20],
   [elbow_angle |-> 162, wrist_height |-> -32],
   [elbow_angle |-> 172, wrist_height |-> -36]}

DeadliftSnapshots ==
  {[hip_angle |-> 170, torso_angle |-> 20, knee_angle |-> 170],
   [hip_angle |-> 130, torso_angle |-> 60, knee_angle |-> 150],
   [hip_angle |-> 90, torso_angle |-> 60, knee_angle |-> 150],
   [hip_angle |-> 170, torso_angle |-> 40, knee_angle |-> 170]}

\* RomanianDeadliftDetector.calculate_metrics: stretch_depth is the torso
\* angle while the knees are straight, and 0 otherwise
RomanianDeadlift_metrics(hip, torso, knee) ==
  [hip_angle |-> hip, torso_angle |-> torso, knee_angle |-> knee,
   stretch_depth |-> IF knee > RomanianDeadlift_knee_angle_min THEN torso ELSE 0]

RomanianDeadliftSnapshots ==
  {RomanianDeadlift_metrics(170, 20, 170), RomanianDeadlift_metrics(130, 50, 150),
   RomanianDeadlift_metrics(90, 82, 162), RomanianDeadlift_metrics(90, 88, 170)}

CalfRaiseSnapshots ==
  {[ankle_angle |-> 90, heel_height |-> 2],
   [ankle_angle |-> 120, heel_height |-> 6],
   [ankle_angle |-> 140, heel_height |-> 10],
   [ankle_angle |-> 140, heel_height |-> 13]}

BarbellRowSnapshots ==
  {[elbow_angle |-> 170, torso_angle |-> 60, pull_distance |-> 40],
   [elbow_angle |-> 120, torso_angle |-> 60, pull_distance |-> 30],
   [elbow_angle |-> 85, torso_angle |-> 60, pull_distance |-> 20],
   [elbow_angle |-> 75, torso_angle |-> 60, pull_distance |-> 10]}

BicepCurlSnapshots ==
  {[elbow_angle |-> 170, curl_height |-> 0],
   [elbow_angle |-> 100, curl_height |-> 15],
   [elbow_angle |-> 45, curl_height |-> 30],
   [elbow_angle |-> 35, curl_height |-> 35]}

BenchPressSnapshots ==
  {[elbow_angle |-> 80, press_depth |-> 10],
   [elbow_angle |-> 120, press_depth |-> 20],
   [elbow_angle |-> 168, press_depth |-> 30],
   [elbow_angle |-> 172, press_depth |-> 32]}

FrontRaiseSnapshots ==
  {[wrist_height |-> 10, arm_angle |-> 170],
   [wrist_height |-> -10, arm_angle |-> 130],
   [wrist_height |-> -22, arm_angle |-> 120],
   [wrist_height |-> -30, arm_angle |-> 120]}

\* wrists together (straight and bent elbows), half open, wide open with bent
\* elbows, wide open
DumbbellFlySnapshots ==
  {[wrist_distance |-> 10, elbow_angle |-> 155, arm_length |-> 30],
   [wrist_distance |-> 10, elbow_angle |-> 135, arm_length |-> 30],
   [wrist_distance |-> 50, elbow_angle |-> 155, arm_length |-> 30],
   [wrist_distance |-> 65, elbow_angle |-> 145, arm_length |-> 30],
   [wrist_distance |-> 65, elbow_angle |-> 155, arm_length |-> 30]}

Snapshots(ex) ==
  CASE ex = "squat" -> SquatSnapshots
    [] ex = "shoulder_press" -> ShoulderPressSnapshots
    [] ex = "deadlift" -> DeadliftSnapshots
    [] ex = "romanian_deadlift" -> RomanianDeadliftSnapshots
    [] ex = "calf_raise" -> CalfRaiseSnapshots
    [] ex = "barbell_row" -> BarbellRowSnapshots
    [] ex = "bicep_curl" -> BicepCurlSnapshots
    [] ex = "bench_press" -> BenchPressSnapshots
    [] ex = "front_raise" -> FrontRaiseSnapshots
    [] ex = "dumbbell_fly" -> DumbbellFlySnapshots
    [] OTHER -> GenericSnapshots

\* ------------------------------------------------- exercise profile methods
\* is_in_rep_position and is_at_starting_position of the registered detectors
ShoulderPress_is_in_rep_position(m) ==
  /\ m.elbow_angle > ShoulderPress_elbow_extension_threshold
  /\ m.wrist_height < -ShoulderPress_wrist_height_threshold

ShoulderPress_is_at_starting_position(m) ==
  /\ m.elbow_angle < ShoulderPress_starting_angle
  /\ m.wrist_height > ShoulderPress_starting_height

Deadlift_is_in_rep_position(m) ==
  m.hip_angle < Deadlift_bottom_hip_angle /\ m.knee_angle < 160

Deadlift_is_at_starting_position(m) ==
  /\ m.hip_angle > Deadlift_hip_angle_threshold
  /\ m.torso_angle < Deadlift_torso_angle_threshold

RomanianDeadlift_is_in_rep_position(m) ==
  /\ m.hip_angle < RomanianDeadlift_bottom_hip_angle
  /\ m.knee_angle > RomanianDeadlift_knee_angle_min
  /\ m.torso_angle > RomanianDeadlift_torso_angle_bottom

RomanianDeadlift_is_at_starting_position(m) ==
  m.hip_angle > RomanianDeadlift_hip_angle_threshold /\ m.torso_angle < 30

CalfRaise_is_in_rep_position(m) ==
  \/ m.ankle_angle > CalfRaise_ankle_angle_extended
  \/ m.heel_height > CalfRaise_heel_lift_threshold

\* mutant: the two tests are joined by `or`, as in is_in_rep_position
CalfRaise_is_at_starting_position_or(m) ==
  \/ m.ankle_angle < CalfRaise_ankle_angle_flexed
  \/ 2 * m.heel_height < CalfRaise_heel_lift_threshold

\* heel_height < heel_lift_threshold * 0.5
CalfRaise_is_at_starting_position(m) ==
  /\ m.ankle_angle < CalfRaise_ankle_angle_flexed
  /\ 2 * m.heel_height < CalfRaise_heel_lift_threshold

BarbellRow_is_in_rep_position(m) ==
  /\ m.elbow_angle < BarbellRow_elbow_flexion_threshold
  /\ BarbellRow_torso_angle_min < m.torso_angle
  /\ m.torso_angle < BarbellRow_torso_angle_max

BarbellRow_is_at_starting_position(m) ==
  /\ m.elbow_angle > 160
  /\ BarbellRow_torso_angle_min < m.torso_angle
  /\ m.torso_angle < BarbellRow_torso_angle_max

BicepCurl_is_in_rep_position(m) ==
  m.elbow_angle < BicepCurl_elbow_flexion_threshold

BicepCurl_is_at_starting_position(m) ==
  m.elbow_angle > BicepCurl_elbow_extension_threshold

BenchPress_is_in_rep_position(m) ==
  m.elbow_angle > BenchPress_elbow_extension_threshold

BenchPress_is_at_starting_position(m) ==
  /\ m.elbow_angle < BenchPress_elbow_flexion_threshold
  /\ m.press_depth < BenchPress_wrist_shoulder_distance

FrontRaise_is_in_rep_position(m) ==
  \/ m.wrist_height < FrontRaise_wrist_height_threshold
  \/ m.arm_angle < FrontRaise_arm_angle_threshold

FrontRaise_is_at_starting_position(m) ==
  m.wrist_height > 0 /\ m.arm_angle > 160

DumbbellFly_is_in_rep_position(m) ==
  m.wrist_distance < DumbbellFly_wrist_distance_closed

DumbbellFly_is_at_starting_position(m) ==
  /\ m.wrist_distance > DumbbellFly_wrist_distance_open
  /\ m.elbow_angle > DumbbellFly_elbow_angle_min

IsInRepPosition(ex, m) ==
  CASE ex = "squat" ->
         m.knee_angle < knee_angle_threshold /\ m.squat_depth < depth_threshold
    [] ex = "shoulder_press" -> ShoulderPress_is_in_rep_position(m)
    [] ex = "deadlift" -> Deadlift_is_in_rep_position(m)
    [] ex = "romanian_deadlift" -> RomanianDeadlift_is_in_rep_position(m)
    [] ex = "calf_raise" -> CalfRaise_is_in_rep_position(m)
    [] ex = "barbell_row" -> BarbellRow_is_in_rep_position(m)
    [] ex = "bicep_curl" -> BicepCurl_is_in_rep_position(m)
    [] ex = "bench_press" -> BenchPress_is_in_rep_position(m)
    [] ex = "front_raise" -> FrontRaise_is_in_rep_position(m)
    [] ex = "dumbbell_fly" -> DumbbellFly_is_in_rep_position(m)
    [] OTHER -> m.in_pos

IsAtStartingPosition(ex, m) ==
  CASE ex = "squat" ->
         m.knee_angle > standing_angle /\ m.squat_depth > standing_depth
    [] ex = "shoulder_press" -> ShoulderPress_is_at_starting_position(m)
    [] ex = "deadlift" -> Deadlift_is_at_starting_position(m)
    [] ex = "romanian_deadlift" -> RomanianDeadlift_is_at_starting_position(m)
    [] ex = "calf_raise" -> CalfRaise_is_at_starting_position(m)
    [] ex = "barbell_row" -> BarbellRow_is_at_starting_position(m)
    [] ex = "bicep_curl" -> BicepCurl_is_at_starting_position(m)
    [] ex = "bench_press" -> BenchPress_is_at_starting_position(m)
    [] ex = "front_raise" -> FrontRaise_is_at_starting_position(m)
    [] ex = "dumbbell_fly" -> DumbbellFly_is_at_starting_position(m)
    [] OTHER -> m.at_start

\* metrics the calculate_metrics of each registered detector can yield, around
\* the thresholds of its predicates
ProbeSnapshots(ex) ==
  CASE ex = "squat" ->
         [knee_angle : {90, 100, 130, 160, 170}, squat_depth : {8, 15, 20, 25, 30}]
    [] ex = "shoulder_press" ->
         [elbow_angle : {130, 140, 150, 160, 170}, wrist_height : {-40, -30, -15, 0}]
    [] ex = "deadlift" ->
         [hip_angle : {90, 100, 130, 160, 170}, torso_angle : {20, 30, 60},
          knee_angle : {150, 160, 170}]
    [] ex = "romanian_deadlift" ->
         [hip_angle : {90, 100, 165, 170}, torso_angle : {20, 30, 80, 85},
          knee_angle : {160, 170}, stretch_depth : {0, 85}]
    [] ex = "calf_raise" ->
         [ankle_angle : {90, 100, 120, 135, 140}, heel_height : {2, 4, 6, 8, 10}]
    [] ex = "barbell_row" ->
         [elbow_angle : {80, 90, 120, 160, 170}, torso_angle : {45, 60, 80},
          pull_distance : {10}]
    [] ex = "bicep_curl" ->
         [elbow_angle : {40, 50, 100, 160, 170}, curl_height : {0, 30}]
    [] ex = "bench_press" ->
         [elbow_angle : {80, 90, 120, 165, 170}, press_depth : {10, 12, 20}]
    [] ex = "front_raise" ->
         [wrist_height : {-25, -20, -10, 0, 10}, arm_angle : {90, 100, 130, 160, 170}]
    [] ex = "dumbbell_fly" ->
         [wrist_distance : {10, 15, 30, 50, 60}, elbow_angle : {140, 150, 160},
          arm_length : {30}]

Abs(x) == IF x < 0 THEN -x ELSE x

\* assess_rep_quality of the registered detectors: each reads its argument only
Squat_assess_rep_quality(m) ==
  IF m.squat_depth < ExcellentDepth THEN "Excellent - ATG (Ass to Grass)"
  ELSE IF m.squat_depth < depth_threshold THEN "Good - Full depth / Parallel"
  ELSE IF m.squat_depth < FairDepth THEN "Fair - Just below parallel"
  ELSE "Shallow - Go deeper"

ShoulderPress_assess_rep_quality(m) ==
  IF m.elbow_angle > 170 /\ Abs(m.wrist_height) > 35 THEN "Excellent - Full lockout"
  ELSE IF m.elbow_angle > 165 /\ Abs(m.wrist_height) > 30 THEN "Good - Nearly full"
  ELSE IF m.elbow_angle > 160 THEN "Fair - Partial lockout"
  ELSE "Incomplete - Extend more"

Deadlift_assess_rep_quality(m) ==
  IF m.hip_angle > 165 THEN "Excellent - Full lockout"
  ELSE IF m.hip_angle > 160 THEN "Good - Nearly locked"
  ELSE "Incomplete lockout"

RomanianDeadlift_assess_rep_quality(m) ==
  IF m.stretch_depth > 85 /\ m.knee_angle > 165
    THEN "Excellent - Deep stretch, straight legs"
  ELSE IF m.stretch_depth > 75 THEN "Good - Good hamstring stretch"
  ELSE IF m.knee_angle < 160 THEN "Knees bent - Keep legs straighter"
  ELSE "Shallow - Go deeper"

CalfRaise_assess_rep_quality(m) ==
  IF m.heel_height > 12 THEN "Excellent - Full extension"
  ELSE IF m.heel_height > 8 THEN "Good - Adequate height"
  ELSE "Shallow - Raise higher"

BarbellRow_assess_rep_quality(m) ==
  IF m.elbow_angle < 80 /\ m.pull_distance < 15 THEN "Excellent - Full contraction"
  ELSE IF m.elbow_angle < 90 THEN "Good - Solid pull"
  ELSE "Partial - Pull higher"

BicepCurl_assess_rep_quality(m) ==
  IF m.elbow_angle < 40 THEN "Excellent - Full contraction"
  ELSE IF m.elbow_angle < 50 THEN "Good - Full curl"
  ELSE "Partial - Curl higher"

BenchPress_assess_rep_quality(m) ==
  IF m.elbow_angle > 170 THEN "Excellent - Full lockout"
  ELSE IF m.elbow_angle > 165 THEN "Good - Nearly locked"
  ELSE "Incomplete - Lock arms"

FrontRaise_assess_rep_quality(m) ==
  IF m.wrist_height < -25 THEN "Excellent - Above shoulders"
  ELSE IF m.wrist_height < -15 THEN "Good - Shoulder height"
  ELSE "Low - Raise higher"

DumbbellFly_assess_rep_quality(m) ==
  IF m.wrist_distance > 60 /\ m.elbow_angle > 150
    THEN "Excellent - Full chest stretch"
  ELSE IF m.wrist_distance > 50 THEN "Good - Good stretch"
  ELSE IF m.elbow_angle < 140 THEN "Bent elbows - Keep arms straighter"
  ELSE "Shallow - Open wider"

\* mutant: the first repetition of a detector is graded leniently
AssessRepQualityLenient(ex, m) ==
  IF rep_count = 0 THEN "Good" ELSE "Partial"

AssessRepQuality(ex, m) ==
  CASE ex = "squat" -> Squat_assess_rep_quality(m)
    [] ex = "shoulder_press" -> ShoulderPress_assess_rep_quality(m)
    [] ex = "deadlift" -> Deadlift_assess_rep_quality(m)
    [] ex = "romanian_deadlift" -> RomanianDeadlift_assess_rep_quality(m)
    [] ex = "calf_raise" -> CalfRaise_assess_rep_quality(m)
    [] ex = "barbell_row" -> BarbellRow_assess_rep_quality(m)
    [] ex = "bicep_curl" -> BicepCurl_assess_rep_quality(m)
    [] ex = "bench_press" -> BenchPress_assess_rep_quality(m)
    [] ex = "front_raise" -> FrontRaise_assess_rep_quality(m)
    [] ex = "dumbbell_fly" -> DumbbellFly_assess_rep_quality(m)
    [] OTHER -> IF m.value = 2 THEN "Good" ELSE "Partial"

\* BaseExerciseDetector.update_best_metrics: only keys missing from best
BaseUpdateBestMetrics(current, best) ==
  [k \in (DOMAIN current) \cup (DOMAIN best) |->
     IF k \in DOMAIN best THEN best[k] ELSE current[k]]

\* best[k] = current[k] for the keys given
Assign(best, keys, current) ==
  [k \in (DOMAIN best) \cup keys |-> IF k \in keys THEN current[k] ELSE best[k]]

\* update_best_metrics of the registered detectors
Squat_update_best_metrics(current, best) ==
  IF current.squat_depth < Get(best, "squat_depth", DepthDefault)
    THEN Assign(best, {"squat_depth", "knee_angle"}, current)
    ELSE best

ShoulderPress_update_best_metrics(current, best) ==
  LET b1 == IF current.elbow_angle > Get(best, "elbow_angle", 0)
              THEN Assign(best, {"elbow_angle"}, current) ELSE best
  IN IF current.wrist_height < Get(b1, "wrist_height", 100)
       THEN Assign(b1, {"wrist_height"}, current) ELSE b1

Deadlift_update_best_metrics(current, best) ==
  LET b1 == IF current.hip_angle > Get(best, "hip_angle", 0)
              THEN Assign(best, {"hip_angle"}, current) ELSE best
  IN IF current.torso_angle < Get(b1, "torso_angle", 90)
       THEN Assign(b1, {"torso_angle"}, current) ELSE b1

RomanianDeadlift_update_best_metrics(current, best) ==
  IF current.stretch_depth > Get(best, "stretch_depth", 0)
    THEN Assign(best, {"stretch_depth", "hip_angle", "knee_angle"}, current)
    ELSE best

CalfRaise_update_best_metrics(current, best) ==
  IF current.heel_height > Get(best, "heel_height", 0)
    THEN Assign(best, {"heel_height", "ankle_angle"}, current)
    ELSE best

BarbellRow_update_best_metrics(current, best) ==
  IF current.elbow_angle < Get(best, "elbow_angle", 180)
    THEN Assign(best, {"elbow_angle", "pull_distance"}, current)
    ELSE best

BicepCurl_update_best_metrics(current, best) ==
  IF current.elbow_angle < Get(best, "elbow_angle", 180)
    THEN Assign(best, {"elbow_angle", "curl_height"}, current)
    ELSE best

BenchPress_update_best_metrics(current, best) ==
  IF current.elbow_angle > Get(best, "elbow_angle", 0)
    THEN Assign(best, {"elbow_angle"}, current)
    ELSE best

FrontRaise_update_best_metrics(current, best) ==
  IF current.wrist_height < Get(best, "wrist_height", 100)
    THEN Assign(best, {"wrist_height", "arm_angle"}, current)
    ELSE best

\* mutant: the widest opening is kept whatever the elbow angle is
DumbbellFly_update_best_metrics_any_form(current, best) ==
  IF current.wrist_distance > Get(best, "wrist_distance", 0)
    THEN Assign(best, {"wrist_distance", "elbow_angle"}, current)
    ELSE best

DumbbellFly_update_best_metrics(current, best) ==
  IF /\ current.wrist_distance > Get(best, "wrist_distance", 0)
     /\ current.elbow_angle > DumbbellFly_elbow_angle_min
    THEN Assign(best, {"wrist_distance", "elbow_angle"}, current)
    ELSE best

\* mutant: the comparison of SquatDetector.update_best_metrics is reversed
UpdateBestMetricsShallowest(ex, current, best) ==
  IF ex = "squat"
    THEN IF current.squat_depth > Get(best, "squat_depth", DepthDefault)
           THEN [k \in (DOMAIN best) \cup {"squat_depth", "knee_angle"} |->
                   IF k \in {"squat_depth", "knee_angle"} THEN current[k] ELSE best[k]]
           ELSE best
    ELSE BaseUpdateBestMetrics(current, best)

\* mutant: the metrics of the latest frame replace the best ones
UpdateBestMetricsLatest(ex, current, best) ==
  IF ex = "squat"
    THEN [k \in (DOMAIN best) \cup {"squat_depth", "knee_angle"} |->
            IF k \in {"squat_depth", "knee_angle"} THEN current[k] ELSE best[k]]
    ELSE BaseUpdateBestMetrics(current, best)

UpdateBestMetrics(ex, current, best) ==
  CASE ex = "squat" -> Squat_update_best_metrics(current, best)
    [] ex = "shoulder_press" -> ShoulderPress_update_best_metrics(current, best)
    [] ex = "deadlift" -> Deadlift_update_best_metrics(current, best)
    [] ex = "romanian_deadlift" -> RomanianDeadlift_update_best_metrics(current, best)
    [] ex = "calf_raise" -> CalfRaise_update_best_metrics(current, best)
    [] ex = "barbell_row" -> BarbellRow_update_best_metrics(current, best)
    [] ex = "bicep_curl" -> BicepCurl_update_best_metrics(current, best)
    [] ex = "bench_press" -> BenchPress_update_best_metrics(current, best)
    [] ex = "front_raise" -> FrontRaise_update_best_metrics(current, best)
    [] ex = "dumbbell_fly" -> DumbbellFly_update_best_metrics(current, best)
    [] OTHER -> BaseUpdateBestMetrics(current, best)

AllJointsDetected(f) == f.joints

CalculateMetrics(f) == f.data

\* --------------------------------------------------------------------- Init
ScenarioFrames ==
  << Valid(Snap(170, 30)), Valid(Snap(170, 30)), Valid(Snap(95, 10)),
     Valid(Snap(90, 8)), Valid(Snap(95, 10)), Valid(Snap(170, 30)) >>

\* signals +1, +1, -1, -1, +1 of a sign-crossing detector
CrossingScenario ==
  << Valid(1), Valid(1), Valid(-1), Valid(-1), Valid(1) >>

\* distances 0.3, 0.05, 0.04, 0.3 of a proximity detector
ProximityScenario ==
  << Valid(30), Valid(5), Valid(4), Valid(30) >>

Scenario ==
  CASE handler = "exercise" -> ScenarioFrames
    [] handler = "crossing" -> CrossingScenario
    [] handler = "proximity" -> ProximityScenario
    [] OTHER -> << >>

Exercises == {"squat", "generic"}

\* mutant: the counter starts at 0, as after a repetition
InitDetectorCounterAtZero ==
  /\ rep_count = 0
  /\ in_rep_position = FALSE
  /\ returned_to_start = TRUE
  /\ rep_start_time = None
  /\ frames_since_last_rep = 0
  /\ current_metrics = EmptyDict
  /\ best_metrics = EmptyDict
  /\ log = << >>
  /\ started = 0
  /\ completed = << >>

InitDetector ==
  /\ rep_count = 0
  /\ in_rep_position = FALSE
  /\ returned_to_start = TRUE
  /\ rep_start_time = None
  /\ frames_since_last_rep = cooldown_frames
  /\ current_metrics = EmptyDict
  /\ best_metrics = EmptyDict
  /\ log = << >>
  /\ started = 0
  /\ completed = << >>

InitHistory ==
  /\ last_fire = None
  /\ scen = 0
  /\ cycle_base = 0
  /\ cycle_starts = 0
  /\ cycle_cool = TRUE
  /\ cycle_osc = 0
  /\ last_observed = None
  /\ cycle_min = DepthDefault
  /\ pose_lost = FALSE
  /\ edge_dropped = FALSE
  /\ zero_crossing = None

InitEdge ==
  /\ last_relative_position = None
  /\ was_close = FALSE
  /\ threshold_crossed = FALSE
  /\ frames_since_last_event = cooldown_frames
  /\ events = << >>

Handlers == {"exercise", "crossing", "proximity", "angle"}

\* lines of the log file: the header block, a repetition, anything else
HeaderLine == [kind |-> "header"]
RepLine(entry) == [kind |-> "rep", entry |-> entry]
ForeignLine == [kind |-> "foreign"]

\* the log file: what it held when the detector was built, then its entries
LogFile ==
  IF log_base = None THEN None
  ELSE Some(The(log_base) \o [i \in 1..Len(log) |-> RepLine(log[i])])

\* _initialize_log: open(log_file, 'x') writes the header block, or finds the
\* file and leaves it alone
InitializeLog(file) == IF file = None THEN Some(<<HeaderLine>>) ELSE file

\* a JointTracker as its constructor leaves it: no handler, no previous frame
NewTracker ==
  /\ event_handlers = << >>
  /\ prev_landmarks = None
  /\ tracking = "built"
  /\ invoked = << >>
  /\ calls = [h \in HandlerObjects |-> 0]
  /\ frames_seen = << >>

\* MovingAverage(): the default window, nothing added
NewAverage ==
  /\ window_size = 5
  /\ values = << >>
  /\ average = [call |-> "none", result |-> None]
  /\ added = << >>

\* shoulder_press.py, ShoulderPressDetector.__init__
NewPressDetector ==
  /\ press_count = 0
  /\ in_press_position = FALSE
  /\ arms_returned = TRUE
  /\ press_start_time = None
  /\ max_extension_achieved = None
  /\ max_height_achieved = None
  /\ press_log = << >>
  /\ press_frame = None
  /\ press_clock = 0
  /\ press_failed = FALSE

\* WebTracker.__init__, with no request under way and no capture thread
NewWebTracker ==
  /\ self_tracker = None
  /\ self_detector = None
  /\ self_thread = None
  /\ loops = [i \in CaptureThreads |-> "unborn"]
  /\ control = [pc |-> "idle", then |-> "idle"]
  /\ polling = "idle"
  /\ asked = {}
  /\ resumed = {}
  /\ drove = {}

\* the components that take no step of their own
\* SquatDetector.__init__ of src/squat.py with its default thresholds
NewSquatDetector ==
  /\ squat_angle_threshold = 100
  /\ squat_depth_threshold = 15
  /\ squat_count = 0
  /\ in_squat_position = FALSE
  /\ returned_to_standing = TRUE
  /\ squat_start_time = None
  /\ min_angle_achieved = None
  /\ min_depth_achieved = None
  /\ squat_log = <<>>
  /\ squat_frame = None
  /\ squat_clock = 0
  /\ squat_failed = FALSE
  /\ squat_entries = 0
  /\ squat_step = [counted |-> FALSE, entered |-> FALSE]

IdleLibrary ==
  NewTracker /\ NewAverage /\ NewPressDetector /\ NewWebTracker /\ NewSquatDetector

\* no WebTracker is involved
NoWebTracker ==
  /\ running = FALSE
  /\ thread = "none"
  /\ response = None

InitOutputs ==
  /\ raised = << >>
  /\ stats = None
  /\ request = None
  /\ assessed = None
  /\ probe = None
  /\ verdict = None

\* one handler was built, with a log file that did not exist, and registered
Init ==
  /\ IdleLibrary
  /\ handler \in Handlers
  /\ exercise \in (IF handler = "exercise" THEN Exercises ELSE {"none"})
  /\ comparison \in (IF handler = "angle" THEN {"less", "greater"} ELSE {"none"})
  /\ axis = (IF handler = "crossing" THEN "x" ELSE "none")
  /\ cooldown_frames \in 0..MaxCooldown
  /\ InitEdge
  /\ now = 0
  /\ frame = NoFrame
  /\ InitDetector
  /\ InitHistory
  /\ initial_file = None
  /\ log_base = (IF handler = "exercise" THEN InitializeLog(None) ELSE None)
  /\ sink_reliable = TRUE
  /\ InitOutputs
  /\ NoWebTracker

\* ids of the detector classes of EXERCISE_REGISTRY
EXERCISE_REGISTRY ==
  {"squat", "shoulder_press", "deadlift", "romanian_deadlift", "calf_raise",
   "barbell_row", "bicep_curl", "bench_press", "front_raise", "dumbbell_fly"}

\* nothing is built or registered yet
NothingBuilt ==
  /\ handler = "none"
  /\ exercise = "none"
  /\ comparison = "none"
  /\ axis = "none"
  /\ cooldown_frames = 0
  /\ InitEdge
  /\ now = 0
  /\ frame = NoFrame
  /\ InitDetector
  /\ InitHistory

\* a registered detector class and a metrics snapshot to try its predicates on
ProfileInit ==
  /\ IdleLibrary
  /\ NothingBuilt
  /\ initial_file = None
  /\ log_base = None
  /\ sink_reliable = TRUE
  /\ raised = << >>
  /\ stats = None
  /\ request = None
  /\ assessed = None
  /\ probe \in UNION {{[ex |-> ex, m |-> m] : m \in ProbeSnapshots(ex)} :
                       ex \in EXERCISE_REGISTRY}
  /\ verdict = None
  /\ NoWebTracker

\* lines 88-89 of on_joints_detected: the two predicates on one snapshot
EvaluatePredicates ==
  /\ verdict = None
  /\ probe # None
  /\ verdict' = Some([is_in_position |-> IsInRepPosition(probe.ex, probe.m),
                       is_at_start |-> IsAtStartingPosition(probe.ex, probe.m)])
  /\ UNCHANGED <<cfgvars, now, frame, detvars, edgevars, histvars, filevars,
                 outvars, probe, sidevars>>

ProfileNext == EvaluatePredicates

ProfileSpec == ProfileInit /\ [][ProfileNext]_vars

\* ------------------------------------------------------ BaseExerciseDetector
\* mutant: the cooldown test of line 97 is missing
CooldownIgnored(fs) == TRUE

CooldownElapsed(fs) == fs >= cooldown_frames

ReturnCondition(is_at_start) == is_at_start /\ in_rep_position

\* mutant: the entry test of line 101 looks at the predicate only
EntryConditionAnyState(is_in_position) == is_in_position

EntryCondition(is_in_position) ==
  is_in_position /\ ~in_rep_position /\ returned_to_start

\* mutant: the entry is numbered from 0
LogEntryZeroBased(t, rep_num, duration, quality) ==
  [time |-> t, rep_num |-> rep_num - 1, duration |-> duration, quality |-> quality]

\* _format_log_entry
LogEntry(t, rep_num, duration, quality) ==
  [time |-> t, rep_num |-> rep_num, duration |-> duration, quality |-> quality]

\* open(self.log_file, 'a') and write: succeeds, or raises OSError
AppendOutcomes == IF sink_reliable THEN {TRUE} ELSE BOOLEAN

\* mutant: the repetition is counted after it was logged
CompleteRepLogsFirst(t) ==
  LET n == rep_count + 1
      duration == t - The(rep_start_time)
      quality == AssessRepQuality(exercise, best_metrics)
  IN \E appended \in AppendOutcomes :
       IF appended
         THEN /\ rep_count' = n
              /\ frames_since_last_rep' = 0
              /\ log' = Append(log, LogEntry(t, n, duration, quality))
              /\ completed' = Append(completed,
                                 [rep_num |-> n, metrics |-> best_metrics,
                                  duration |-> duration, quality |-> quality])
              /\ raised' = raised
         ELSE /\ raised' = Append(raised, [time |-> t, error |-> "OSError"])
              /\ frames_since_last_rep' = frames_since_last_rep + 1
              /\ UNCHANGED <<rep_count, log, completed>>

\* _complete_rep, with _log_rep and on_rep_completed
CompleteRep(t) ==
  LET n == rep_count + 1
      duration == t - The(rep_start_time)
      quality == AssessRepQuality(exercise, best_metrics)
  IN /\ rep_count' = n
     /\ frames_since_last_rep' = 0
     /\ \E appended \in AppendOutcomes :
          IF appended
            THEN /\ log' = Append(log, LogEntry(t, n, duration, quality))
                 /\ completed' = Append(completed,
                                    [rep_num |-> n, metrics |-> best_metrics,
                                     duration |-> duration, quality |-> quality])
                 /\ raised' = raised
            ELSE /\ raised' = Append(raised, [time |-> t, error |-> "OSError"])
                 /\ UNCHANGED <<log, completed>>

\* mutant: line 94 is missing, the detector stays in the rep position
ReturnBranchStaysActive(t, fs) ==
  /\ returned_to_start' = TRUE
  /\ in_rep_position' = in_rep_position
  /\ IF CooldownElapsed(fs)
       THEN CompleteRep(t)
       ELSE /\ frames_since_last_rep' = fs
            /\ UNCHANGED <<rep_count, log, completed, raised>>
  /\ UNCHANGED <<rep_start_time, best_metrics, started>>

\* lines 92-98: return to the starting position
ReturnBranch(t, fs) ==
  /\ returned_to_start' = TRUE
  /\ in_rep_position' = FALSE
  /\ IF CooldownElapsed(fs)
       THEN CompleteRep(t)
       ELSE /\ frames_since_last_rep' = fs
            /\ UNCHANGED <<rep_count, log, completed, raised>>
  /\ UNCHANGED <<rep_start_time, best_metrics, started>>

\* mutant: the entry does not take the time
EntryBranchWithoutTimestamp(t, fs, m) ==
  /\ in_rep_position' = TRUE
  /\ returned_to_start' = FALSE
  /\ rep_start_time' = rep_start_time
  /\ best_metrics' = m
  /\ started' = started + 1
  /\ frames_since_last_rep' = fs
  /\ UNCHANGED <<rep_count, log, completed, raised>>

\* mutant: the entry merges into the best metrics of the last cycle
EntryBranchMerges(t, fs, m) ==
  /\ in_rep_position' = TRUE
  /\ returned_to_start' = FALSE
  /\ rep_start_time' = Some(t)
  /\ best_metrics' = IF best_metrics = EmptyDict THEN m
                      ELSE UpdateBestMetrics(exercise, m, best_metrics)
  /\ started' = started + 1
  /\ frames_since_last_rep' = fs
  /\ UNCHANGED <<rep_count, log, completed, raised>>

\* mutant: line 103 is missing, returned_to_start stays true at the entry
EntryBranchKeepsReturned(t, fs, m) ==
  /\ in_rep_position' = TRUE
  /\ returned_to_start' = returned_to_start
  /\ rep_start_time' = Some(t)
  /\ best_metrics' = m
  /\ started' = started + 1
  /\ frames_since_last_rep' = fs
  /\ UNCHANGED <<rep_count, log, completed, raised>>

\* lines 101-106: entering the rep position
EntryBranch(t, fs, m) ==
  /\ in_rep_position' = TRUE
  /\ returned_to_start' = FALSE
  /\ rep_start_time' = Some(t)
  /\ best_metrics' = m
  /\ started' = started + 1
  /\ frames_since_last_rep' = fs
  /\ UNCHANGED <<rep_count, log, completed, raised>>

\* mutant: the merge of lines 109-110 is missing
UpdateBranchKeepsSeed(fs, m) ==
  /\ best_metrics' = best_metrics
  /\ frames_since_last_rep' = fs
  /\ UNCHANGED <<rep_count, in_rep_position, returned_to_start, rep_start_time,
                 log, started, completed, raised>>

\* lines 109-110: best metrics while in position
UpdateBranch(fs, m) ==
  /\ best_metrics' = UpdateBestMetrics(exercise, m, best_metrics)
  /\ frames_since_last_rep' = fs
  /\ UNCHANGED <<rep_count, in_rep_position, returned_to_start, rep_start_time,
                 log, started, completed, raised>>

IdleBranch(fs) ==
  /\ frames_since_last_rep' = fs
  /\ UNCHANGED <<rep_count, in_rep_position, returned_to_start, rep_start_time,
                 best_metrics, log, started, completed, raised>>

Min(a, b) == IF a < b THEN a ELSE b

\* the metric SquatDetector aggregates; other profiles aggregate none
Depth(m) == IF exercise = "squat" THEN m.squat_depth ELSE DepthDefault

\* history of the current cycle, kept apart from the detector's own fields
CycleHistory(f) ==
  IF ~f.joints THEN UNCHANGED <<cycle_base, cycle_starts, cycle_cool, cycle_osc,
                                cycle_min>>
  ELSE
    LET m == f.data
        is_in == IsInRepPosition(exercise, m)
        is_st == IsAtStartingPosition(exercise, m)
        entering == started' > started
    IN IF entering
         THEN /\ cycle_base' = rep_count
              /\ cycle_starts' = 0
              /\ cycle_cool' = TRUE
              /\ cycle_osc' = 0
              /\ cycle_min' = Depth(m)
         ELSE /\ cycle_base' = cycle_base
              /\ cycle_starts' = IF started > 0 /\ is_st
                                   THEN Min(2, cycle_starts + 1) ELSE cycle_starts
              /\ cycle_cool' = IF started > 0 /\ is_st /\ cycle_starts = 0
                                 THEN frames_since_last_rep + 1 >= cooldown_frames
                                 ELSE cycle_cool
              /\ cycle_osc' = IF in_rep_position /\ ~is_st
                                THEN IF ~is_in /\ cycle_osc = 0 THEN 1
                                     ELSE IF is_in /\ cycle_osc = 1 THEN 2
                                     ELSE cycle_osc
                                ELSE cycle_osc
              /\ cycle_min' = IF in_rep_position /\ ~is_st
                                THEN Min(cycle_min, Depth(m)) ELSE cycle_min

ScenarioHistory(f) ==
  scen' = IF scen >= 0 /\ scen < Len(Scenario) /\ f = Scenario[scen + 1]
            THEN scen + 1 ELSE -1

\* mutant: the metrics are reset before the joints are checked
SkipFrameClearsMetrics(fs) ==
  /\ frames_since_last_rep' = fs
  /\ current_metrics' = EmptyDict
  /\ UNCHANGED <<rep_count, in_rep_position, returned_to_start, rep_start_time,
                 best_metrics, log, started, completed, raised>>

\* mutant: the counter is incremented after the joints are checked
SkipFrameNoCount(fs) ==
  /\ frames_since_last_rep' = frames_since_last_rep
  /\ UNCHANGED <<rep_count, in_rep_position, returned_to_start, rep_start_time,
                 current_metrics, best_metrics, log, started, completed, raised>>

\* lines 81-82: a required joint is undetected
SkipFrame(fs) ==
  /\ frames_since_last_rep' = fs
  /\ UNCHANGED <<rep_count, in_rep_position, returned_to_start, rep_start_time,
                 current_metrics, best_metrics, log, started, completed, raised>>

\* mutant: the entry test is an `if` of its own, as in src/squat.py, so that a
\* frame that returns to the start can enter the rep position as well
StateMachineFallThrough(t, fs, m) ==
  LET is_in_position == IsInRepPosition(exercise, m)
      is_at_start == IsAtStartingPosition(exercise, m)
  IN IF ReturnCondition(is_at_start)
       THEN IF is_in_position
              THEN /\ in_rep_position' = TRUE
                   /\ returned_to_start' = FALSE
                   /\ rep_start_time' = Some(t)
                   /\ best_metrics' = m
                   /\ started' = started + 1
                   /\ IF CooldownElapsed(fs)
                        THEN CompleteRep(t)
                        ELSE /\ frames_since_last_rep' = fs
                             /\ UNCHANGED <<rep_count, log, completed, raised>>
              ELSE ReturnBranch(t, fs)
       ELSE IF EntryCondition(is_in_position) THEN EntryBranch(t, fs, m)
       ELSE IF in_rep_position THEN UpdateBranch(fs, m)
       ELSE IdleBranch(fs)

\* lines 87-110: the state machine on the metrics of a valid frame
StateMachine(t, fs, m) ==
  LET is_in_position == IsInRepPosition(exercise, m)
      is_at_start == IsAtStartingPosition(exercise, m)
  IN IF ReturnCondition(is_at_start) THEN ReturnBranch(t, fs)
     ELSE IF EntryCondition(is_in_position) THEN EntryBranch(t, fs, m)
     ELSE IF in_rep_position THEN UpdateBranch(fs, m)
     ELSE IdleBranch(fs)

\* BaseExerciseDetector.on_joints_detected
OnJointsDetected(f, t) ==
  LET fs == frames_since_last_rep + 1 IN
  IF ~AllJointsDetected(f)
    THEN SkipFrame(fs)
    ELSE LET m == CalculateMetrics(f)
         IN /\ current_metrics' = m
            /\ StateMachine(t, fs, m)

ExerciseFrames(ex) == {Valid(m) : m \in Snapshots(ex)} \cup {MissingJoint}

\* JointTracker.process_frame with pose landmarks: the handler is triggered
ProcessExerciseFrame ==
  /\ handler = "exercise"
  /\ now < MaxFrames
  /\ \E f \in ExerciseFrames(exercise) :
       /\ now' = now + 1
       /\ frame' = f
       /\ OnJointsDetected(f, now + 1)
       /\ CycleHistory(f)
       /\ ScenarioHistory(f)
       /\ last_fire' = IF rep_count' > rep_count THEN Some(now + 1) ELSE last_fire
       /\ pose_lost' = IF rep_count' > rep_count THEN FALSE ELSE pose_lost
  /\ stats' = None
  /\ assessed' = None
  /\ request' = None
  /\ UNCHANGED <<cfgvars, edgevars, last_observed, edge_dropped, zero_crossing,
                 filevars, probevars>>

ExerciseFrame == ProcessExerciseFrame /\ UNCHANGED sidevars

\* ------------------------------------------------------- joint event handlers
Sign(x) == IF x > 0 THEN 1 ELSE IF x < 0 THEN -1 ELSE 0

RelativePositions == {-1, 0, 1, 2}
Distances == {4, 5, 10, 30}
Angles == {80, 90, 100}

EdgeFrames(observed) == {Valid(v) : v \in observed} \cup {MissingJoint}

DebounceElapsed(fs) == fs >= cooldown_frames

Fire(t, what) ==
  /\ events' = Append(events, [time |-> t, what |-> what])
  /\ frames_since_last_event' = 0

NoFire(fs) ==
  /\ events' = events
  /\ frames_since_last_event' = fs

\* mutant: a change of the value, not of its sign, counts as a crossing
CrossingComparesValues(f, t) ==
  LET fs == frames_since_last_event + 1 IN
  IF ~AllJointsDetected(f)
    THEN /\ NoFire(fs)
         /\ UNCHANGED last_relative_position
    ELSE LET current_relative_position == f.data IN
         /\ IF /\ last_relative_position # None
               /\ The(last_relative_position) # current_relative_position
               /\ DebounceElapsed(fs)
              THEN Fire(t, IF current_relative_position > 0
                             THEN "joint1 crossed over joint2"
                             ELSE "joint2 crossed over joint1")
              ELSE NoFire(fs)
         /\ last_relative_position' = Some(current_relative_position)

\* mutant: a frame with a joint undetected forgets the last relative position
CrossingForgetsOnGap(f, t) ==
  LET fs == frames_since_last_event + 1 IN
  IF ~AllJointsDetected(f)
    THEN /\ NoFire(fs)
         /\ last_relative_position' = None
    ELSE LET current_relative_position == f.data IN
         /\ IF /\ last_relative_position # None
               /\ Sign(The(last_relative_position)) # Sign(current_relative_position)
               /\ DebounceElapsed(fs)
              THEN Fire(t, IF current_relative_position > 0
                             THEN "joint1 crossed over joint2"
                             ELSE "joint2 crossed over joint1")
              ELSE NoFire(fs)
         /\ last_relative_position' = Some(current_relative_position)

\* mutant: only opposite signs count as a crossing, zero is on neither side
CrossingNeedsOppositeSigns(f, t) ==
  LET fs == frames_since_last_event + 1 IN
  IF ~AllJointsDetected(f)
    THEN /\ NoFire(fs)
         /\ UNCHANGED last_relative_position
    ELSE LET current_relative_position == f.data IN
         /\ IF /\ last_relative_position # None
               /\ Sign(The(last_relative_position)) = -Sign(current_relative_position)
               /\ current_relative_position # 0
               /\ DebounceElapsed(fs)
              THEN Fire(t, IF current_relative_position > 0
                             THEN "joint1 crossed over joint2"
                             ELSE "joint2 crossed over joint1")
              ELSE NoFire(fs)
         /\ last_relative_position' = Some(current_relative_position)

\* JointCrossingHandler.on_joints_detected
CrossingOnJointsDetected(f, t) ==
  LET fs == frames_since_last_event + 1 IN
  IF ~AllJointsDetected(f)
    THEN /\ NoFire(fs)
         /\ UNCHANGED last_relative_position
    ELSE LET current_relative_position == f.data IN
         /\ IF /\ last_relative_position # None
               /\ Sign(The(last_relative_position)) # Sign(current_relative_position)
               /\ DebounceElapsed(fs)
              THEN Fire(t, IF current_relative_position > 0
                             THEN "joint1 crossed over joint2"
                             ELSE "joint2 crossed over joint1")
              ELSE NoFire(fs)
         /\ last_relative_position' = Some(current_relative_position)

\* mutant: the test of was_close is missing, the handler is level-triggered
ProximityLevelTriggered(f, t) ==
  LET fs == frames_since_last_event + 1 IN
  IF ~AllJointsDetected(f)
    THEN /\ NoFire(fs)
         /\ UNCHANGED was_close
    ELSE LET distance == f.data
             is_close == distance < threshold_distance
         IN /\ IF is_close /\ DebounceElapsed(fs)
                 THEN Fire(t, "close")
                 ELSE NoFire(fs)
            /\ was_close' = is_close

\* mutant: an edge inside the cooldown is kept for later, was_close is not
\* updated on it
ProximityDefersEdge(f, t) ==
  LET fs == frames_since_last_event + 1 IN
  IF ~AllJointsDetected(f)
    THEN /\ NoFire(fs)
         /\ UNCHANGED was_close
    ELSE LET distance == f.data
             is_close == distance < threshold_distance
         IN /\ IF is_close /\ ~was_close /\ DebounceElapsed(fs)
                 THEN Fire(t, "close")
                 ELSE NoFire(fs)
            /\ was_close' = IF is_close /\ ~was_close /\ ~DebounceElapsed(fs)
                              THEN was_close ELSE is_close

\* JointProximityHandler.on_joints_detected
ProximityOnJointsDetected(f, t) ==
  LET fs == frames_since_last_event + 1 IN
  IF ~AllJointsDetected(f)
    THEN /\ NoFire(fs)
         /\ UNCHANGED was_close
    ELSE LET distance == f.data
             is_close == distance < threshold_distance
         IN /\ IF is_close /\ ~was_close /\ DebounceElapsed(fs)
                 THEN Fire(t, "close")
                 ELSE NoFire(fs)
            /\ was_close' = is_close

\* mutant: the test of threshold_crossed is missing
AngleLevelTriggered(f, t) ==
  LET fs == frames_since_last_event + 1 IN
  IF ~AllJointsDetected(f)
    THEN /\ NoFire(fs)
         /\ UNCHANGED threshold_crossed
    ELSE LET angle == f.data
             threshold_currently_crossed ==
               \/ comparison = "less" /\ angle < angle_threshold
               \/ comparison = "greater" /\ angle > angle_threshold
         IN /\ IF threshold_currently_crossed /\ DebounceElapsed(fs)
                 THEN Fire(t, "angle threshold crossed")
                 ELSE NoFire(fs)
            /\ threshold_crossed' = threshold_currently_crossed

\* JointAngleHandler.on_joints_detected
AngleOnJointsDetected(f, t) ==
  LET fs == frames_since_last_event + 1 IN
  IF ~AllJointsDetected(f)
    THEN /\ NoFire(fs)
         /\ UNCHANGED threshold_crossed
    ELSE LET angle == f.data
             threshold_currently_crossed ==
               \/ comparison = "less" /\ angle < angle_threshold
               \/ comparison = "greater" /\ angle > angle_threshold
         IN /\ IF threshold_currently_crossed /\ ~threshold_crossed /\ DebounceElapsed(fs)
                 THEN Fire(t, "angle threshold crossed")
                 ELSE NoFire(fs)
            /\ threshold_crossed' = threshold_currently_crossed

\* the condition of the handler on an observed value: the joints are close,
\* the angle is beyond the threshold; for the crossing handler, the side
ConditionOn(kind, v) ==
  CASE kind = "proximity" -> v < threshold_distance
    [] kind = "angle" -> IF comparison = "less" THEN v < angle_threshold
                                                 ELSE v > angle_threshold
    [] OTHER -> Sign(v)

\* the observed value is an edge: the condition has become true, the side
\* has changed
IsEdge(kind, v) ==
  IF kind = "crossing"
    THEN last_observed # None /\ ConditionOn(kind, The(last_observed)) # ConditionOn(kind, v)
    ELSE ConditionOn(kind, v) /\ (last_observed # None => ~ConditionOn(kind, The(last_observed)))

\* the observed value continues what the last one showed
Persists(kind, v) ==
  /\ last_observed # None
  /\ ConditionOn(kind, The(last_observed)) = ConditionOn(kind, v)
  /\ kind # "crossing" => ConditionOn(kind, v)

\* history: an edge that did not fire, for as long as its condition holds
EdgeHistory(kind, f) ==
  edge_dropped' =
    IF ~AllJointsDetected(f) THEN edge_dropped
    ELSE IF IsEdge(kind, f.data) THEN Len(events') = Len(events)
    ELSE IF Persists(kind, f.data) THEN edge_dropped
    ELSE FALSE

\* history: the signal of the crossing handler comes from one side to exactly
\* zero (the crossing begins), stays there, and leaves to the other side (the
\* crossing is over); the events fired on the way are counted
ZeroCrossingHistory(kind, f, t) ==
  zero_crossing' =
    IF kind # "crossing" THEN None
    ELSE IF ~AllJointsDetected(f) THEN zero_crossing
    ELSE LET fired == IF Len(events') > Len(events) THEN 1 ELSE 0 IN
         IF f.data = 0
           THEN IF last_observed # None /\ The(last_observed) # 0
                  THEN Some([from |-> Sign(The(last_observed)), at |-> t,
                             events |-> fired, over |-> FALSE])
                  ELSE zero_crossing
         ELSE IF /\ zero_crossing # None
                 /\ ~The(zero_crossing).over
                 /\ Sign(f.data) = -The(zero_crossing).from
                THEN Some([The(zero_crossing) EXCEPT
                             !.events = @ + fired, !.over = TRUE])
         ELSE None

EdgeFrame(kind, observed) ==
  /\ handler = kind
  /\ now < MaxFrames
  /\ \E f \in EdgeFrames(observed) :
       /\ now' = now + 1
       /\ frame' = f
       /\ \/ kind = "crossing" /\ CrossingOnJointsDetected(f, now + 1)
                              /\ UNCHANGED <<was_close, threshold_crossed>>
          \/ kind = "proximity" /\ ProximityOnJointsDetected(f, now + 1)
                               /\ UNCHANGED <<last_relative_position, threshold_crossed>>
          \/ kind = "angle" /\ AngleOnJointsDetected(f, now + 1)
                           /\ UNCHANGED <<last_relative_position, was_close>>
       /\ last_fire' = IF Len(events') > Len(events) THEN Some(now + 1) ELSE last_fire
       /\ pose_lost' = IF Len(events') > Len(events) THEN FALSE ELSE pose_lost
       /\ EdgeHistory(kind, f)
       /\ ZeroCrossingHistory(kind, f, now + 1)
       /\ last_observed' = IF AllJointsDetected(f) THEN Some(f.data) ELSE last_observed
       /\ ScenarioHistory(f)
  /\ stats' = None
  /\ assessed' = None
  /\ request' = None
  /\ UNCHANGED <<cfgvars, detvars, cycle_base, cycle_starts, cycle_cool, cycle_osc,
                 cycle_min, filevars, raised, probevars, sidevars>>

CrossingFrame == EdgeFrame("crossing", RelativePositions)

ProximityFrame == EdgeFrame("proximity", Distances)

AngleFrame == EdgeFrame("angle", Angles)

\* JointTracker.process_frame without pose landmarks: no handler is triggered
ProcessNoPoseFrame ==
  /\ now < MaxFrames
  /\ now' = now + 1
  /\ frame' = NoPose
  /\ scen' = -1
  /\ pose_lost' = (last_fire # None)
  /\ stats' = None
  /\ assessed' = None
  /\ request' = None
  /\ UNCHANGED <<cfgvars, detvars, edgevars, last_fire, cycle_base, cycle_starts,
                 cycle_cool, cycle_osc, last_observed, cycle_min, edge_dropped,
                 zero_crossing, filevars, raised, probevars>>

NoPoseFrame == ProcessNoPoseFrame /\ UNCHANGED sidevars

Next ==
  \/ ExerciseFrame
  \/ CrossingFrame
  \/ ProximityFrame
  \/ AngleFrame
  \/ NoPoseFrame

Spec == Init /\ [][Next]_vars

\* ------------------------------------------------ grading of repetitions
\* cooldown_frames given to the constructors: none, and two frames
RequestedCooldowns == {0, 2}

\* one of the registered detectors was built and registered
GradingInit ==
  /\ IdleLibrary
  /\ handler = "exercise"
  /\ exercise \in EXERCISE_REGISTRY
  /\ comparison = "none"
  /\ axis = "none"
  /\ cooldown_frames \in RequestedCooldowns
  /\ InitEdge
  /\ now = 0
  /\ frame = NoFrame
  /\ InitDetector
  /\ InitHistory
  /\ initial_file = None
  /\ log_base = InitializeLog(None)
  /\ sink_reliable = TRUE
  /\ InitOutputs
  /\ NoWebTracker

\* metrics that are, or were at a finalize, the best metrics of the detector
BestMetricsSeen ==
  {completed[i].metrics : i \in 1..Len(completed)} \cup
    (IF best_metrics = EmptyDict THEN {} ELSE {best_metrics})

\* a call of assess_rep_quality on such metrics, between two frames
AssessQuality ==
  /\ handler = "exercise"
  /\ \E m \in BestMetricsSeen :
       assessed' = Some([metrics |-> m, label |-> AssessRepQuality(exercise, m)])
  /\ stats' = None
  /\ request' = None
  /\ UNCHANGED <<cfgvars, now, frame, detvars, edgevars, histvars, filevars,
                 raised, probevars, sidevars>>

GradingNext ==
  \/ ExerciseFrame
  \/ NoPoseFrame
  \/ AssessQuality

GradingSpec == GradingInit /\ [][GradingNext]_vars

\* ------------------------------------- construction, log file and statistics
\* identifiers asked of get_exercise_detector, axes asked of
\* JointCrossingHandler
RequestedIds == {"squat", "yoga"}
RequestedAxes == {"x", "y", "z", "w"}
axis_map == {"x", "y", "z"}

Raise(t, error) == raised' = Append(raised, [time |-> t, error |-> error])

\* nothing is built; the log file is absent or holds something already, and
\* an append to it can fail
SessionInit ==
  /\ IdleLibrary
  /\ NothingBuilt
  /\ initial_file \in {None, Some(<<ForeignLine>>)}
  /\ log_base = initial_file
  /\ sink_reliable = FALSE
  /\ InitOutputs
  /\ running = TRUE
  /\ thread = "none"
  /\ response = None

\* the fields every handler constructor sets, and the history of a new handler
NewHandler(kind, ex, ax, cooldown) ==
  /\ handler' = kind
  /\ exercise' = ex
  /\ axis' = ax
  /\ comparison' = "none"
  /\ cooldown_frames' = cooldown
  /\ rep_count' = 0
  /\ in_rep_position' = FALSE
  /\ returned_to_start' = TRUE
  /\ rep_start_time' = None
  /\ frames_since_last_rep' = cooldown
  /\ current_metrics' = EmptyDict
  /\ best_metrics' = EmptyDict
  /\ log' = << >>
  /\ started' = 0
  /\ completed' = << >>
  /\ last_relative_position' = None
  /\ was_close' = FALSE
  /\ threshold_crossed' = FALSE
  /\ frames_since_last_event' = cooldown
  /\ events' = << >>
  /\ last_fire' = None
  /\ scen' = -1
  /\ cycle_base' = 0
  /\ cycle_starts' = 0
  /\ cycle_cool' = TRUE
  /\ cycle_osc' = 0
  /\ last_observed' = None
  /\ cycle_min' = DepthDefault
  /\ pose_lost' = FALSE
  /\ edge_dropped' = FALSE
  /\ zero_crossing' = None

NothingChanged ==
  UNCHANGED <<cfgvars, rep_count, in_rep_position, returned_to_start,
              rep_start_time, frames_since_last_rep, current_metrics,
              best_metrics, log, started, completed, edgevars, last_fire, scen,
              cycle_base, cycle_starts, cycle_cool, cycle_osc, last_observed,
              cycle_min, pose_lost, edge_dropped, zero_crossing, log_base>>

\* mutant: _initialize_log opens the file with 'w'
GetExerciseDetectorRewritesLog(exercise_id, cooldown, t) ==
  IF exercise_id \notin EXERCISE_REGISTRY
    THEN Raise(t, "ValueError") /\ NothingChanged
    ELSE \E created \in AppendOutcomes :
           IF LogFile = None /\ ~created
             THEN Raise(t, "OSError") /\ NothingChanged
             ELSE /\ NewHandler("exercise", exercise_id, "none", cooldown)
                  /\ log_base' = Some(<<HeaderLine>>)
                  /\ raised' = raised

\* get_exercise_detector, the constructor of the class and its
\* _initialize_log; the detector is the handler of a new tracker
GetExerciseDetector(exercise_id, cooldown, t) ==
  IF exercise_id \notin EXERCISE_REGISTRY
    THEN Raise(t, "ValueError") /\ NothingChanged
    ELSE \E created \in AppendOutcomes :
           IF LogFile = None /\ ~created
             THEN Raise(t, "OSError") /\ NothingChanged
             ELSE /\ NewHandler("exercise", exercise_id, "none", cooldown)
                  /\ log_base' = InitializeLog(LogFile)
                  /\ raised' = raised

BuildExerciseDetector ==
  /\ now < MaxFrames
  /\ now' = now + 1
  /\ frame' = NoFrame
  /\ stats' = None
  /\ assessed' = None
  /\ \E exercise_id \in RequestedIds, cooldown \in RequestedCooldowns :
       /\ request' = Some([builds |-> "exercise", arg |-> exercise_id])
       /\ GetExerciseDetector(exercise_id, cooldown, now + 1)
  /\ UNCHANGED <<sink_reliable, initial_file, probevars, sidevars>>

\* mutant: an axis that is not in axis_map is replaced by the default 'x'
NewCrossingHandlerDefaultsAxis(ax, cooldown, t) ==
  /\ NewHandler("crossing", "none", IF ax \in axis_map THEN ax ELSE "x", cooldown)
  /\ UNCHANGED <<log_base, raised>>

\* JointCrossingHandler.__init__; the handler is the handler of a new tracker
NewCrossingHandler(ax, cooldown, t) ==
  IF ax \notin axis_map
    THEN Raise(t, "ValueError") /\ NothingChanged
    ELSE /\ NewHandler("crossing", "none", ax, cooldown)
         /\ UNCHANGED <<log_base, raised>>

BuildCrossingHandler ==
  /\ now < MaxFrames
  /\ now' = now + 1
  /\ frame' = NoFrame
  /\ stats' = None
  /\ assessed' = None
  /\ \E ax \in RequestedAxes, cooldown \in RequestedCooldowns :
       /\ request' = Some([builds |-> "crossing", arg |-> ax])
       /\ NewCrossingHandler(ax, cooldown, now + 1)
  /\ UNCHANGED <<sink_reliable, initial_file, probevars, sidevars>>

\* mutant: best_metrics is reported only while in the rep position
StatsBestMetricsWhileActive(best) ==
  IF in_rep_position /\ best # EmptyDict THEN Some(best) ELSE None

\* `if self.detector.best_metrics:` the key is present for a non-empty dict
StatsBestMetrics(best) == IF best # EmptyDict THEN Some(best) ELSE None

\* get_in_position_instruction, get_return_instruction and
\* get_ready_instruction of the detectors. The ready instruction of
\* SquatDetector and ShoulderPressDetector has a suffix taken from
\* self._last_metrics if that attribute exists; nothing assigns it.
GetInPositionInstruction(ex) ==
  CASE ex = "squat" -> "FULL SQUAT - Hold at bottom"
    [] ex = "shoulder_press" -> "OVERHEAD - Locked out"
    [] ex = "deadlift" -> "PULLING - Drive through heels"
    [] ex = "romanian_deadlift" -> "HINGING - Feel hamstring stretch"
    [] ex = "calf_raise" -> "RAISED - Hold at top"
    [] ex = "barbell_row" -> "PULLING - Squeeze shoulder blades"
    [] ex = "bicep_curl" -> "CURLED - Squeeze biceps"
    [] ex = "bench_press" -> "LOCKED OUT - Hold"
    [] ex = "front_raise" -> "RAISED - Hold at top"
    [] ex = "dumbbell_fly" -> "CLOSED - Squeeze chest"
    [] OTHER -> "in position"

GetReturnInstruction(ex) ==
  CASE ex = "squat" -> "STAND UP - Return to top"
    [] ex = "shoulder_press" -> "LOWER - Control descent"
    [] ex = "deadlift" -> "LOCKOUT - Stand fully upright"
    [] ex = "romanian_deadlift" -> "STAND UP - Drive hips forward"
    [] ex = "calf_raise" -> "LOWER - Control descent"
    [] ex = "barbell_row" -> "EXTEND - Lower with control"
    [] ex = "bicep_curl" -> "LOWER - Control descent"
    [] ex = "bench_press" -> "LOWER - Touch chest"
    [] ex = "front_raise" -> "LOWER - Control descent"
    [] ex = "dumbbell_fly" -> "OPEN - Stretch chest wide"
    [] OTHER -> "return"

GetReadyInstruction(ex) ==
  CASE ex = "squat" -> "READY - Squat down"
    [] ex = "shoulder_press" -> "READY - Press overhead"
    [] ex = "deadlift" -> "READY - Hinge and grip bar"
    [] ex = "romanian_deadlift" -> "READY - Hinge at hips, keep legs straight"
    [] ex = "calf_raise" -> "READY - Push up on toes"
    [] ex = "barbell_row" -> "READY - Hinge and pull to chest"
    [] ex = "bicep_curl" -> "READY - Curl weights to shoulders"
    [] ex = "bench_press" -> "READY - Press to lockout"
    [] ex = "front_raise" -> "READY - Raise arms forward"
    [] ex = "dumbbell_fly" -> "READY - Bring dumbbells together"
    [] OTHER -> "ready"

\* BaseExerciseDetector.get_instruction
GetInstruction ==
  IF in_rep_position THEN GetInPositionInstruction(exercise)
  ELSE IF ~returned_to_start THEN GetReturnInstruction(exercise)
  ELSE GetReadyInstruction(exercise)

\* mutant: get_stats tests returned_to_start before in_rep_position
StatusAndInstructionReturnFirst ==
  IF ~returned_to_start
    THEN [status |-> "Must return", instruction |-> GetReturnInstruction(exercise)]
  ELSE IF in_rep_position
    THEN [status |-> "In position",
          instruction |-> GetInPositionInstruction(exercise)]
  ELSE [status |-> "Ready", instruction |-> GetReadyInstruction(exercise)]

\* lines 189-198 of get_stats
StatusAndInstruction ==
  IF in_rep_position
    THEN [status |-> "In position",
          instruction |-> GetInPositionInstruction(exercise)]
  ELSE IF ~returned_to_start
    THEN [status |-> "Must return", instruction |-> GetReturnInstruction(exercise)]
  ELSE [status |-> "Ready", instruction |-> GetReadyInstruction(exercise)]

\* WebTracker.get_stats; the detector is the handler, if there is one
GetStats ==
  /\ stats' =
       IF handler # "exercise" \/ ~running
         THEN Some([active |-> FALSE, reps |-> 0, status |-> "Not started",
                    instruction |-> "Select an exercise and press Start",
                    in_position |-> FALSE, returned |-> FALSE,
                    best_metrics |-> None])
         ELSE Some([active |-> TRUE, reps |-> rep_count,
                    status |-> StatusAndInstruction.status,
                    instruction |-> StatusAndInstruction.instruction,
                    in_position |-> in_rep_position,
                    returned |-> returned_to_start,
                    best_metrics |-> StatsBestMetrics(best_metrics)])
  /\ request' = None
  /\ assessed' = None
  /\ UNCHANGED <<cfgvars, now, frame, detvars, edgevars, histvars, filevars,
                 raised, probevars, sidevars>>

SessionNext ==
  \/ BuildExerciseDetector
  \/ BuildCrossingHandler
  \/ ExerciseFrame
  \/ CrossingFrame
  \/ NoPoseFrame
  \/ GetStats

SessionSpec == SessionInit /\ [][SessionNext]_vars

\* ------------------------------------------------------------------ WebTracker
\* a WebTracker that was not started; the log file does not exist and an
\* append to it can fail
WebInit ==
  /\ IdleLibrary
  /\ NothingBuilt
  /\ initial_file = None
  /\ log_base = None
  /\ sink_reliable = FALSE
  /\ InitOutputs
  /\ running = FALSE
  /\ thread = "none"
  /\ response = None

\* self.detector = None: the tracker has no handler, the log file stays
NoDetector ==
  /\ NewHandler("none", "none", "none", 0)
  /\ log_base' = LogFile

\* WebTracker.stop as start calls it: the capture thread is joined
StopIfRunning ==
  IF running /\ thread # "none" THEN "ended" ELSE thread

\* WebTracker.start with the reply of start_exercise: an unknown identifier is
\* caught and leaves no detector; any other exception leaves start before the
\* thread is started and becomes the reply
WebTrackerStart(exercise_type, cooldown, t) ==
  IF exercise_type \notin EXERCISE_REGISTRY
    THEN /\ NoDetector
         /\ raised' = raised
         /\ running' = TRUE
         /\ thread' = "starting"
         /\ response' = Some([success |-> TRUE])
    ELSE \E created \in AppendOutcomes :
           IF LogFile = None /\ ~created
             THEN /\ IF running THEN NoDetector ELSE NothingChanged
                  /\ raised' = raised
                  /\ running' = TRUE
                  /\ thread' = StopIfRunning
                  /\ response' = Some([success |-> FALSE])
             ELSE /\ NewHandler("exercise", exercise_type, "none", cooldown)
                  /\ log_base' = InitializeLog(LogFile)
                  /\ raised' = raised
                  /\ running' = TRUE
                  /\ thread' = "starting"
                  /\ response' = Some([success |-> TRUE])

\* POST /start_exercise
StartExercise ==
  /\ now < MaxFrames
  /\ now' = now + 1
  /\ frame' = NoFrame
  /\ stats' = None
  /\ assessed' = None
  /\ \E exercise_type \in RequestedIds, cooldown \in RequestedCooldowns :
       /\ request' = Some([builds |-> "exercise", arg |-> exercise_type])
       /\ WebTrackerStart(exercise_type, cooldown, now + 1)
  /\ UNCHANGED <<sink_reliable, initial_file, probevars, libvars>>

\* POST /stop_exercise: WebTracker.stop
StopExercise ==
  /\ now < MaxFrames
  /\ now' = now + 1
  /\ frame' = NoFrame
  /\ stats' = None
  /\ assessed' = None
  /\ request' = None
  /\ running' = FALSE
  /\ thread' = IF thread = "none" THEN "none" ELSE "ended"
  /\ NoDetector
  /\ UNCHANGED <<raised, response, sink_reliable, initial_file, probevars,
                 libvars>>

\* _capture_loop, lines 110-115: the camera is opened, or it cannot be
OpenCamera ==
  /\ thread = "starting"
  /\ \E opened \in BOOLEAN :
       IF opened
         THEN thread' = "capturing" /\ running' = running
         ELSE thread' = "ended" /\ running' = FALSE
  /\ stats' = None
  /\ assessed' = None
  /\ request' = None
  /\ UNCHANGED <<cfgvars, now, frame, detvars, edgevars, histvars, filevars,
                 raised, probevars, response, libvars>>

\* _capture_loop, lines 118-157: one frame is read and processed; an
\* exception of the handler ends the thread
CaptureFrame ==
  /\ thread = "capturing"
  /\ running
  /\ \/ ProcessExerciseFrame
     \/ ProcessNoPoseFrame
  /\ thread' = IF Len(raised') > Len(raised) THEN "ended" ELSE thread
  /\ UNCHANGED <<running, response, libvars>>

\* _capture_loop, lines 119-123: no frame could be read
ReadFailure ==
  /\ thread = "capturing"
  /\ running
  /\ now < MaxFrames
  /\ now' = now + 1
  /\ thread' = "ended"
  /\ stats' = None
  /\ assessed' = None
  /\ request' = None
  /\ UNCHANGED <<cfgvars, frame, detvars, edgevars, histvars, filevars,
                 raised, probevars, running, response, libvars>>

WebNext ==
  \/ StartExercise
  \/ StopExercise
  \/ OpenCamera
  \/ CaptureFrame
  \/ ReadFailure
  \/ GetStats

WebSpec == WebInit /\ [][WebNext]_vars

\* ---------------------------------------------------------------- JointTracker
\* a JointTracker with the handler objects registered with it; the handlers
\* are opaque, each with a state of its own that every call advances
TrackerInit ==
  /\ NothingBuilt
  /\ initial_file = None
  /\ log_base = None
  /\ sink_reliable = FALSE
  /\ InitOutputs
  /\ NoWebTracker
  /\ NewTracker
  /\ NewAverage
  /\ NewPressDetector
  /\ NewWebTracker
  /\ NewSquatDetector

\* list.remove: the first occurrence is taken out
RemoveFirst(s, h) ==
  IF \E i \in DOMAIN s : s[i] = h
    THEN LET i == CHOOSE i \in DOMAIN s :
                    s[i] = h /\ \A j \in 1..(i - 1) : s[j] # h
         IN  SubSeq(s, 1, i - 1) \o SubSeq(s, i + 1, Len(s))
    ELSE s

\* calls of h among the recorded calls
CallsOf(h, record) == Cardinality({i \in DOMAIN record : record[i].handler = h})

\* a handler is called at most once for a frame, whatever the list holds
TriggerEachObjectOnce(landmarks, n) ==
  LET firsts == {i \in 1..n : \A j \in 1..(i - 1) : event_handlers[j] # event_handlers[i]}
      Pick[k \in 0..n] ==
        IF k = 0 THEN << >>
        ELSE IF k \in firsts
               THEN Append(Pick[k - 1], [handler |-> event_handlers[k],
                                         landmarks |-> landmarks,
                                         previous |-> prev_landmarks])
               ELSE Pick[k - 1]
  IN  Pick[n]

\* prev_landmarks is assigned before the handlers are called
TriggerWithCurrentAsPrevious(landmarks, n) ==
  [i \in 1..n |-> [handler |-> event_handlers[i],
                   landmarks |-> landmarks,
                   previous |-> Some(landmarks)]]

\* _trigger_event_handlers: the first n entries of the list are called, in
\* the order of the list, each with the landmarks and self.prev_landmarks
TriggerEventHandlers(landmarks, n) ==
  [i \in 1..n |-> [handler |-> event_handlers[i],
                   landmarks |-> landmarks,
                   previous |-> prev_landmarks]]

\* add_event_handler: append, whether or not the handler is in the list
AddEventHandler ==
  /\ tracking \in {"built", "running"}
  /\ Len(event_handlers) < MaxHandlers
  /\ \E h \in HandlerObjects : event_handlers' = Append(event_handlers, h)
  /\ invoked' = << >>
  /\ UNCHANGED <<prev_landmarks, tracking, calls, frames_seen, corevars, webvars,
                 avgvars, pressvars,
                 racevars, squatvars>>

\* remove_event_handler: nothing happens if the handler is not in the list
RemoveEventHandler ==
  /\ tracking \in {"built", "running"}
  /\ \E h \in HandlerObjects : event_handlers' = RemoveFirst(event_handlers, h)
  /\ invoked' = << >>
  /\ UNCHANGED <<prev_landmarks, tracking, calls, frames_seen, corevars, webvars,
                 avgvars, pressvars,
                 racevars, squatvars>>

\* JointTracker.start up to the loop: RuntimeError if the camera cannot be
\* opened, which leaves the tracker as it was
TrackerStart ==
  /\ tracking = "built"
  /\ \E opened \in BOOLEAN : tracking' = IF opened THEN "running" ELSE "built"
  /\ invoked' = << >>
  /\ UNCHANGED <<event_handlers, prev_landmarks, calls, frames_seen, corevars,
                 webvars, avgvars, pressvars,
                 racevars, squatvars>>

\* process_frame on a frame with a pose, inside the loop of start: the
\* handlers are called in turn; when one raises, the later ones are not
\* called, prev_landmarks keeps its value and the exception ends start
TrackerPoseFrame ==
  /\ tracking = "running"
  /\ Len(frames_seen) < MaxTrackerFrames
  /\ \E landmarks \in LandmarkSets,
        failing \in {0} \cup {i \in DOMAIN event_handlers : event_handlers[i] \in Raising} :
       LET n == IF failing = 0 THEN Len(event_handlers) ELSE failing
       IN  /\ invoked' = TriggerEventHandlers(landmarks, n)
           /\ calls' = [h \in HandlerObjects |-> calls[h] + CallsOf(h, invoked')]
           /\ prev_landmarks' = IF failing = 0 THEN Some(landmarks) ELSE prev_landmarks
           /\ tracking' = IF failing = 0 THEN "running" ELSE "failed"
           /\ frames_seen' = Append(frames_seen, Some(landmarks))
  /\ UNCHANGED <<event_handlers, corevars, webvars, avgvars, pressvars,
                 racevars, squatvars>>

\* process_frame on a frame without a pose
TrackerNoPoseFrame ==
  /\ tracking = "running"
  /\ Len(frames_seen) < MaxTrackerFrames
  /\ prev_landmarks' = None
  /\ invoked' = << >>
  /\ frames_seen' = Append(frames_seen, None)
  /\ UNCHANGED <<event_handlers, tracking, calls, corevars, webvars, avgvars, pressvars,
                 racevars, squatvars>>

\* the loop of start ends: no frame could be read, or 'q' was pressed
TrackerQuit ==
  /\ tracking = "running"
  /\ tracking' = "stopped"
  /\ invoked' = << >>
  /\ UNCHANGED <<event_handlers, prev_landmarks, calls, frames_seen, corevars,
                 webvars, avgvars, pressvars,
                 racevars, squatvars>>

TrackerNext ==
  \/ AddEventHandler
  \/ RemoveEventHandler
  \/ TrackerStart
  \/ TrackerPoseFrame
  \/ TrackerNoPoseFrame
  \/ TrackerQuit

TrackerSpec == TrackerInit /\ [][TrackerNext]_vars

\* --------------------------------------------------------------- MovingAverage
\* a MovingAverage built with some window size
MovingAverageInit ==
  /\ NothingBuilt
  /\ initial_file = None
  /\ log_base = None
  /\ sink_reliable = FALSE
  /\ InitOutputs
  /\ NoWebTracker
  /\ NewTracker
  /\ NewPressDetector
  /\ NewWebTracker
  /\ NewSquatDetector
  /\ window_size \in 0..MaxWindow
  /\ values = << >>
  /\ average = [call |-> "none", result |-> None]
  /\ added = << >>

\* sum(values)
Sum(s) ==
  LET Upto[k \in 0..Len(s)] == IF k = 0 THEN 0 ELSE Upto[k - 1] + s[k]
  IN  Upto[Len(s)]

\* sum(self.values) / len(self.values), as the exact fraction; the division
\* raises when the list is empty
Mean(s) ==
  IF Len(s) = 0 THEN "ZeroDivisionError" ELSE Some([num |-> Sum(s), den |-> Len(s)])

\* MovingAverage.add
MovingAverageAdd ==
  /\ Len(added) < MaxAdded
  /\ \E value \in Measurements :
       LET appended == Append(values, value)
           kept == IF Len(appended) > window_size THEN Tail(appended) ELSE appended
       IN  /\ values' = kept
           /\ average' = [call |-> "add", result |-> Mean(kept)]
           /\ added' = Append(added, value)
  /\ UNCHANGED <<window_size, corevars, webvars, trackvars, pressvars,
                 racevars, squatvars>>

\* MovingAverage.reset
MovingAverageReset ==
  /\ values' = << >>
  /\ average' = [call |-> "reset", result |-> None]
  /\ added' = << >>
  /\ UNCHANGED <<window_size, corevars, webvars, trackvars, pressvars,
                 racevars, squatvars>>

\* MovingAverage.get_average
GetAverage ==
  /\ average' = [call |-> "get_average",
                 result |-> IF values = << >> THEN None ELSE Mean(values)]
  /\ UNCHANGED <<window_size, values, added, corevars, webvars, trackvars, pressvars,
                 racevars, squatvars>>

MovingAverageNext ==
  \/ MovingAverageAdd
  \/ MovingAverageReset
  \/ GetAverage

MovingAverageSpec == MovingAverageInit /\ [][MovingAverageNext]_vars

\* ------------------------------------------- shoulder_press.py (stand-alone)
\* a ShoulderPressDetector of shoulder_press.py, registered with a tracker
StandalonePressInit ==
  /\ NothingBuilt
  /\ initial_file = None
  /\ log_base = None
  /\ sink_reliable = FALSE
  /\ InitOutputs
  /\ NoWebTracker
  /\ NewTracker
  /\ NewAverage
  /\ NewPressDetector
  /\ NewWebTracker
  /\ NewSquatDetector

\* what on_joints_detected computes from a frame, or a joint is missing
PressFrames ==
  {Some([avg_elbow_angle |-> a, wrist_height |-> h]) : a \in PressAngles, h \in PressHeights}
    \cup {None}

is_arms_overhead(wrist_height) == wrist_height < -Standalone_wrist_height_threshold

is_arms_at_starting_position(avg_elbow_angle, wrist_height) ==
  LET arms_bent == avg_elbow_angle < Standalone_bent_angle
      arms_lowered == wrist_height > -Standalone_lowered_height
  IN  arms_bent /\ arms_lowered

\* is_full_press of on_joints_detected
IsFullPress(avg_elbow_angle, wrist_height) ==
  /\ avg_elbow_angle > Standalone_elbow_angle_threshold
  /\ is_arms_overhead(wrist_height)

\* _log_press: the quality written to the log
PressQuality(max_extension, max_height) ==
  IF max_extension > 170 /\ Abs(max_height) > 35 THEN "Excellent - Full lockout"
  ELSE IF max_extension > 165 /\ Abs(max_height) > 30 THEN "Good - Nearly full"
  ELSE IF max_extension > 160 /\ Abs(max_height) > 25 THEN "Fair - Partial lockout"
  ELSE "Incomplete"

\* on_joints_detected of the stand-alone detector, for one frame
PressFrame ==
  /\ ~press_failed
  /\ press_clock < MaxPressFrames
  /\ press_clock' = press_clock + 1
  /\ \E f \in PressFrames :
       /\ press_frame' = f
       /\ IF f = None
            THEN UNCHANGED <<press_count, in_press_position, arms_returned,
                             press_start_time, max_extension_achieved,
                             max_height_achieved, press_log, press_failed>>
            ELSE
              LET avg_elbow_angle == The(f).avg_elbow_angle
                  wrist_height == The(f).wrist_height
                  at_starting_position ==
                    is_arms_at_starting_position(avg_elbow_angle, wrist_height)
                  is_full_press == IsFullPress(avg_elbow_angle, wrist_height)
                  lowered == at_starting_position /\ in_press_position
                  returned == IF lowered THEN TRUE ELSE arms_returned
                  in_press == IF lowered THEN FALSE ELSE in_press_position
              IN  IF is_full_press /\ ~in_press /\ returned
                    THEN /\ in_press_position' = TRUE
                         /\ arms_returned' = FALSE
                         /\ press_count' = press_count + 1
                         /\ press_start_time' = Some(press_clock + 1)
                         /\ max_extension_achieved' = Some(avg_elbow_angle)
                         /\ max_height_achieved' = Some(wrist_height)
                         /\ \E written \in BOOLEAN :
                              /\ press_failed' = ~written
                              /\ press_log' =
                                   IF written
                                     THEN Append(press_log,
                                            [press |-> press_count + 1,
                                             max_extension |-> avg_elbow_angle,
                                             max_height |-> Abs(wrist_height),
                                             duration |->
                                               IF press_start_time = None THEN 0
                                               ELSE press_clock + 1 - The(press_start_time),
                                             quality |-> PressQuality(avg_elbow_angle,
                                                                      wrist_height)])
                                     ELSE press_log
                    ELSE /\ in_press_position' = in_press
                         /\ arms_returned' = returned
                         /\ IF in_press /\ is_full_press
                              THEN /\ max_extension_achieved' =
                                        IF avg_elbow_angle > The(max_extension_achieved)
                                          THEN Some(avg_elbow_angle)
                                          ELSE max_extension_achieved
                                   /\ max_height_achieved' =
                                        IF wrist_height < The(max_height_achieved)
                                          THEN Some(wrist_height)
                                          ELSE max_height_achieved
                              ELSE UNCHANGED <<max_extension_achieved,
                                               max_height_achieved>>
                         /\ UNCHANGED <<press_count, press_start_time, press_log,
                                        press_failed>>
  /\ UNCHANGED <<corevars, webvars, trackvars, avgvars, racevars, squatvars>>

StandalonePressNext == PressFrame

StandalonePressSpec == StandalonePressInit /\ [][StandalonePressNext]_vars

\* --------------------------------------------------- stand-alone squat (CLI)
\* src/squat.py: SquatDetector built with any of the thresholds, driven frame
\* by frame
StandaloneSquatInit ==
  /\ NothingBuilt
  /\ initial_file = None
  /\ log_base = None
  /\ sink_reliable = FALSE
  /\ InitOutputs
  /\ NoWebTracker
  /\ NewTracker
  /\ NewAverage
  /\ NewPressDetector
  /\ NewWebTracker
  /\ squat_angle_threshold \in SquatAngleThresholds
  /\ squat_depth_threshold \in SquatDepthThresholds
  /\ squat_count = 0
  /\ in_squat_position = FALSE
  /\ returned_to_standing = TRUE
  /\ squat_start_time = None
  /\ min_angle_achieved = None
  /\ min_depth_achieved = None
  /\ squat_log = <<>>
  /\ squat_frame = None
  /\ squat_clock = 0
  /\ squat_failed = FALSE
  /\ squat_entries = 0
  /\ squat_step = [counted |-> FALSE, entered |-> FALSE]

\* what on_joints_detected computes from a frame, or a joint is missing
SquatFrames ==
  {Some([avg_knee_angle |-> a, squat_depth |-> d]) : a \in SquatAngles, d \in SquatDepths}
    \cup {None}

is_standing_position(avg_knee_angle, squat_depth) ==
  LET knees_extended == avg_knee_angle > Standalone_standing_angle
      hips_high == squat_depth > Standalone_standing_depth
  IN  knees_extended /\ hips_high

\* is_full_squat of on_joints_detected
IsFullSquat(avg_knee_angle, squat_depth) ==
  /\ avg_knee_angle < squat_angle_threshold
  /\ squat_depth < squat_depth_threshold

\* _log_squat: the quality written to the log
SquatQuality(min_angle, min_depth) ==
  LET depth == IF min_depth < 10 THEN "ATG (Ass to Grass)"
               ELSE IF min_depth < 15 THEN "Full depth / Parallel"
               ELSE IF min_depth < 20 THEN "Just below parallel"
               ELSE "Above parallel"
      angle == IF min_angle < 70 THEN " - Deep"
               ELSE IF min_angle < 90 THEN " - Good"
               ELSE ""
  IN  <<depth, angle>>

\* on_joints_detected of the stand-alone detector, for one frame
SquatFrame ==
  /\ ~squat_failed
  /\ squat_clock < MaxSquatFrames
  /\ squat_clock' = squat_clock + 1
  /\ UNCHANGED <<squat_angle_threshold, squat_depth_threshold>>
  /\ \E f \in SquatFrames :
       /\ squat_frame' = f
       /\ IF f = None
            THEN /\ squat_step' = [counted |-> FALSE, entered |-> FALSE]
                 /\ UNCHANGED <<squat_count, in_squat_position, returned_to_standing,
                                squat_start_time, min_angle_achieved,
                                min_depth_achieved, squat_log, squat_failed,
                                squat_entries>>
            ELSE
              LET avg_knee_angle == The(f).avg_knee_angle
                  squat_depth == The(f).squat_depth
                  is_standing == is_standing_position(avg_knee_angle, squat_depth)
                  is_full_squat == IsFullSquat(avg_knee_angle, squat_depth)
                  stood_up == is_standing /\ in_squat_position
                  returned == IF stood_up THEN TRUE ELSE returned_to_standing
                  in_squat == IF stood_up THEN FALSE ELSE in_squat_position
                  enters == is_full_squat /\ ~in_squat /\ returned
              IN  \E written \in BOOLEAN :
                    /\ stood_up \/ written
                    /\ squat_failed' = ~written
                    /\ squat_count' = IF stood_up THEN squat_count + 1 ELSE squat_count
                    /\ squat_log' =
                         IF stood_up /\ written
                           THEN Append(squat_log,
                                  [squat |-> squat_count + 1,
                                   min_angle |-> The(min_angle_achieved),
                                   min_depth |-> The(min_depth_achieved),
                                   duration |-> squat_clock + 1 - The(squat_start_time),
                                   quality |-> SquatQuality(The(min_angle_achieved),
                                                            The(min_depth_achieved))])
                           ELSE squat_log
                    /\ squat_step' = [counted |-> stood_up, entered |-> written /\ enters]
                    /\ IF written /\ enters
                         THEN /\ in_squat_position' = TRUE
                              /\ returned_to_standing' = FALSE
                              /\ squat_start_time' = Some(squat_clock + 1)
                              /\ min_angle_achieved' = Some(avg_knee_angle)
                              /\ min_depth_achieved' = Some(squat_depth)
                              /\ squat_entries' = squat_entries + 1
                         ELSE /\ in_squat_position' = in_squat
                              /\ returned_to_standing' = returned
                              /\ IF written /\ in_squat
                                   THEN /\ min_angle_achieved' =
                                             IF avg_knee_angle < The(min_angle_achieved)
                                               THEN Some(avg_knee_angle)
                                               ELSE min_angle_achieved
                                        /\ min_depth_achieved' =
                                             IF squat_depth < The(min_depth_achieved)
                                               THEN Some(squat_depth)
                                               ELSE min_depth_achieved
                                   ELSE UNCHANGED <<min_angle_achieved,
                                                    min_depth_achieved>>
                              /\ UNCHANGED <<squat_start_time, squat_entries>>
  /\ UNCHANGED <<corevars, webvars, trackvars, avgvars, pressvars, racevars>>

StandaloneSquatNext == SquatFrame

StandaloneSquatSpec == StandaloneSquatInit /\ [][StandaloneSquatNext]_vars

\* ------------------------------------------------- WebTracker and its threads
\* one WebTracker; requests of /start_exercise and /stop_exercise run start
\* and stop on one request thread, /stats runs get_stats on another, and every
\* start makes a capture thread; the threads take their steps in any order
WebThreadsInit ==
  /\ NothingBuilt
  /\ initial_file = None
  /\ log_base = None
  /\ sink_reliable = FALSE
  /\ InitOutputs
  /\ NoWebTracker
  /\ NewTracker
  /\ NewAverage
  /\ NewPressDetector
  /\ NewWebTracker
  /\ NewSquatDetector

\* the capture threads that have not left _capture_loop
Looping == {i \in CaptureThreads : loops[i] \notin {"unborn", "done", "raised", "crashed"}}

\* the thread, the tracker and the detector the next start makes
NextStart == 1 + Cardinality({i \in CaptureThreads : loops[i] # "unborn"})

RequestStep(from, to) ==
  /\ control.pc = from
  /\ control' = [control EXCEPT !.pc = to]

OnlyControl ==
  UNCHANGED <<running, self_tracker, self_detector, self_thread, loops, polling,
              asked, resumed, drove>>

Elsewhere ==
  UNCHANGED <<corevars, thread, response, trackvars, avgvars, pressvars, squatvars>>

\* a request of /start_exercise arrives
BeginStart ==
  /\ NextStart <= MaxStarts
  /\ RequestStep("idle", "start_check")
  /\ OnlyControl
  /\ Elsewhere

\* a request of /stop_exercise arrives
BeginStop ==
  /\ control.pc = "idle"
  /\ control' = [pc |-> "stop_flag", then |-> "idle"]
  /\ OnlyControl
  /\ Elsewhere

\* start: if self.running: self.stop()
StartCheck ==
  /\ control.pc = "start_check"
  /\ control' = IF running THEN [pc |-> "stop_flag", then |-> "start_flag"]
                           ELSE [pc |-> "start_flag", then |-> "idle"]
  /\ OnlyControl
  /\ Elsewhere

\* stop: self.running = False
StopFlag ==
  /\ RequestStep("stop_flag", "stop_join")
  /\ running' = FALSE
  /\ asked' = asked \cup {i \in CaptureThreads : self_thread = Some(i) /\ i \in Looping}
  /\ UNCHANGED <<self_tracker, self_detector, self_thread, loops, polling, resumed,
                 drove>>
  /\ Elsewhere

\* stop: self.thread.join(timeout=2) returns when the thread has ended, or
\* after two seconds while the thread waits for the camera
StopJoin ==
  /\ IF self_thread = None THEN TRUE
     ELSE \/ The(self_thread) \notin Looping
          \/ loops[The(self_thread)] \in {"opening", "reading"}
  /\ RequestStep("stop_join", "stop_tracker")
  /\ OnlyControl
  /\ Elsewhere

\* stop: self.tracker = None
StopClearTracker ==
  /\ RequestStep("stop_tracker", "stop_detector")
  /\ self_tracker' = None
  /\ UNCHANGED <<running, self_detector, self_thread, loops, polling, asked,
                 resumed, drove>>
  /\ Elsewhere

\* stop: self.detector = None, and stop returns
StopClearDetector ==
  /\ control.pc = "stop_detector"
  /\ control' = [pc |-> control.then, then |-> "idle"]
  /\ self_detector' = None
  /\ UNCHANGED <<running, self_tracker, self_thread, loops, polling, asked,
                 resumed, drove>>
  /\ Elsewhere

\* start: self.running = True
StartFlag ==
  /\ RequestStep("start_flag", "start_tracker")
  /\ running' = TRUE
  /\ UNCHANGED <<self_tracker, self_detector, self_thread, loops, polling, asked,
                 resumed, drove>>
  /\ Elsewhere

\* start: self.tracker = JointTracker(...)
StartTracker ==
  /\ RequestStep("start_tracker", "start_detector")
  /\ self_tracker' = Some(NextStart)
  /\ UNCHANGED <<running, self_detector, self_thread, loops, polling, asked,
                 resumed, drove>>
  /\ Elsewhere

\* start: self.detector is the detector of the registry, registered with the
\* tracker, or None for an unknown identifier
StartDetector ==
  /\ RequestStep("start_detector", "start_thread")
  /\ \E known \in BOOLEAN :
       self_detector' = IF known THEN Some(NextStart) ELSE None
  /\ UNCHANGED <<running, self_tracker, self_thread, loops, polling, asked,
                 resumed, drove>>
  /\ Elsewhere

\* start: the capture thread is made and started, and start returns
StartThread ==
  /\ RequestStep("start_thread", "idle")
  /\ self_thread' = Some(NextStart)
  /\ loops' = [loops EXCEPT ![NextStart] = "opening"]
  /\ UNCHANGED <<running, self_tracker, self_detector, polling, asked, resumed,
                 drove>>
  /\ Elsewhere

OnlyLoops ==
  UNCHANGED <<self_tracker, self_detector, self_thread, control, polling, asked>>

\* _capture_loop: cv2.VideoCapture(0); isOpened or not
LoopOpen(i) ==
  /\ loops[i] = "opening"
  /\ \E opened \in BOOLEAN :
       IF opened
         THEN loops' = [loops EXCEPT ![i] = "head"] /\ running' = running
         ELSE loops' = [loops EXCEPT ![i] = "done"] /\ running' = FALSE
  /\ UNCHANGED <<resumed, drove>>
  /\ OnlyLoops
  /\ Elsewhere

\* _capture_loop: while self.running
LoopHead(i) ==
  /\ loops[i] = "head"
  /\ loops' = [loops EXCEPT ![i] = IF running THEN "reading" ELSE "done"]
  /\ resumed' = IF running /\ i \in asked THEN resumed \cup {i} ELSE resumed
  /\ UNCHANGED <<running, drove>>
  /\ OnlyLoops
  /\ Elsewhere

\* _capture_loop: ret, frame = cap.read(); break if not ret
LoopRead(i) ==
  /\ loops[i] = "reading"
  /\ \E ret \in BOOLEAN :
       loops' = [loops EXCEPT ![i] = IF ret THEN "checking" ELSE "done"]
  /\ UNCHANGED <<running, resumed, drove>>
  /\ OnlyLoops
  /\ Elsewhere

\* _capture_loop: if self.tracker
LoopCheck(i) ==
  /\ loops[i] = "checking"
  /\ loops' = [loops EXCEPT ![i] = IF self_tracker # None THEN "processing" ELSE "head"]
  /\ UNCHANGED <<running, resumed, drove>>
  /\ OnlyLoops
  /\ Elsewhere

\* _capture_loop: self.tracker.pose.process(image), AttributeError if
\* self.tracker is None by now; then a pose was found or not
LoopProcess(i) ==
  /\ loops[i] = "processing"
  /\ IF self_tracker = None
       THEN loops' = [loops EXCEPT ![i] = "crashed"]
       ELSE \E pose \in BOOLEAN :
              loops' = [loops EXCEPT ![i] = IF pose THEN "triggering" ELSE "head"]
  /\ UNCHANGED <<running, resumed, drove>>
  /\ OnlyLoops
  /\ Elsewhere

\* _capture_loop: self.tracker._trigger_event_handlers(...), AttributeError
\* if self.tracker is None by now; the handlers of the tracker that
\* self.tracker is now are called, and one of them may raise
LoopTrigger(i) ==
  /\ loops[i] = "triggering"
  /\ IF self_tracker = None
       THEN loops' = [loops EXCEPT ![i] = "crashed"] /\ drove' = drove
       ELSE /\ drove' = drove \cup {<<i, The(self_tracker)>>}
            /\ \E raises \in BOOLEAN :
                 loops' = [loops EXCEPT ![i] = IF raises THEN "raised" ELSE "head"]
  /\ UNCHANGED <<running, resumed>>
  /\ OnlyLoops
  /\ Elsewhere

OnlyPolling ==
  UNCHANGED <<running, self_tracker, self_detector, self_thread, loops, control,
              asked, resumed, drove>>

\* get_stats: if not self.detector or not self.running
StatsCheck ==
  /\ polling = "idle"
  /\ polling' = IF self_detector = None \/ ~running THEN "returned" ELSE "checked"
  /\ OnlyPolling
  /\ Elsewhere

\* get_stats: self.detector.in_rep_position and the reads after it,
\* AttributeError if self.detector is None by now
StatsRead ==
  /\ polling = "checked"
  /\ polling' = IF self_detector = None THEN "crashed" ELSE "returned"
  /\ OnlyPolling
  /\ Elsewhere

\* the reply of /stats is sent, the next request can come
StatsReturn ==
  /\ polling = "returned"
  /\ polling' = "idle"
  /\ OnlyPolling
  /\ Elsewhere

WebThreadsNext ==
  \/ BeginStart
  \/ BeginStop
  \/ StartCheck
  \/ StopFlag
  \/ StopJoin
  \/ StopClearTracker
  \/ StopClearDetector
  \/ StartFlag
  \/ StartTracker
  \/ StartDetector
  \/ StartThread
  \/ \E i \in CaptureThreads : LoopOpen(i)
  \/ \E i \in CaptureThreads : LoopHead(i)
  \/ \E i \in CaptureThreads : LoopRead(i)
  \/ \E i \in CaptureThreads : LoopCheck(i)
  \/ \E i \in CaptureThreads : LoopProcess(i)
  \/ \E i \in CaptureThreads : LoopTrigger(i)
  \/ StatsCheck
  \/ StatsRead
  \/ StatsReturn

WebThreadsSpec == WebThreadsInit /\ [][WebThreadsNext]_vars

\* ------------------------------------------------------------------- claims
IsExercise == handler = "exercise"

\* the step delivers a frame with every required joint to the detector
ValidStep == IsExercise /\ now' = now + 1 /\ frame'.pose /\ frame'.joints

\* C1: no double counting. In every cycle (from an entry into the rep position
\* up to the next entry) rep_count is unchanged as long as no frame at the
\* starting position has been seen, and is exactly one more than at the entry
\* once such a frame has been seen with the cooldown elapsed, however many
\* frames the cycle has and however often the rep position was left and
\* re-entered in between.
NoDoubleCounting ==
  (IsExercise /\ started > 0) =>
     /\ cycle_starts = 0 => rep_count = cycle_base
     /\ (cycle_starts >= 1 /\ cycle_cool) => rep_count = cycle_base + 1

\* one entry, one frame at the start with the cooldown elapsed, after the rep
\* position was left and taken again while active: one repetition
NoDoubleCountingWitness ==
  /\ IsExercise /\ started = 1 /\ cycle_starts = 1 /\ cycle_cool
  /\ cycle_osc = 2 /\ rep_count = 1

\* C2: cooldown suppression. A return transition on a frame where
\* frames_since_last_rep (as incremented for this frame) is below
\* cooldown_frames does not count: rep_count and the log are unchanged and the
\* counter is not reset, yet the detector becomes Ready.
CooldownSuppression ==
  [][ ( /\ ValidStep
        /\ in_rep_position
        /\ IsAtStartingPosition(exercise, frame'.data)
        /\ frames_since_last_rep + 1 < cooldown_frames )
      => ( /\ rep_count' = rep_count
           /\ log' = log
           /\ completed' = completed
           /\ frames_since_last_rep' = frames_since_last_rep + 1
           /\ ~in_rep_position'
           /\ returned_to_start' ) ]_vars

\* the first frame at the start since the entry came before the cooldown had
\* elapsed: the detector is Ready and the repetition was not counted
CooldownSuppressionWitness ==
  /\ IsExercise /\ frame.joints /\ IsAtStartingPosition(exercise, frame.data)
  /\ cycle_starts = 1 /\ ~cycle_cool
  /\ ~in_rep_position /\ returned_to_start
  /\ rep_count = cycle_base /\ started = rep_count + 1

\* C3: re-entry requires a prior return. While returned_to_start is false no
\* step starts a cycle: no rep-started notification, no new entry timestamp,
\* and best_metrics changes by the merge of update_best_metrics only.
ReentryRequiresReturn ==
  [][ (IsExercise /\ ~returned_to_start)
      => ( /\ started' = started
           /\ rep_start_time' = rep_start_time
           /\ best_metrics' \in
                {best_metrics,
                 UpdateBestMetrics(exercise, current_metrics', best_metrics)} ) ]_vars

\* a frame in the rep position arrived while the detector was already active
ReentryRequiresReturnWitness ==
  /\ IsExercise /\ ~returned_to_start /\ in_rep_position
  /\ frame.joints /\ IsInRepPosition(exercise, frame.data)
  /\ cycle_osc = 2
  /\ The(rep_start_time) < now /\ started = 1

\* C4: missing-joint robustness. A call with a required joint undetected
\* changes none of in_rep_position, returned_to_start, rep_count,
\* best_metrics, current_metrics, the entry timestamp, the log and the
\* notifications; only frames_since_last_rep advances, so the next valid frame
\* is evaluated against the state before the gap.
MissingJointRobustness ==
  [][ (IsExercise /\ now' = now + 1 /\ frame'.pose /\ ~frame'.joints)
      => ( /\ UNCHANGED <<in_rep_position, returned_to_start, rep_count,
                           best_metrics, current_metrics, rep_start_time,
                           log, started, completed>>
           /\ frames_since_last_rep' = frames_since_last_rep + 1 ) ]_vars

\* a gap while active, with metrics and best metrics held
MissingJointRobustnessWitness ==
  /\ IsExercise /\ frame = MissingJoint
  /\ in_rep_position /\ current_metrics # EmptyDict /\ best_metrics # EmptyDict

\* C5: the squat scenario. After the six frames of ScenarioFrames, fed to a
\* fresh SquatDetector with cooldown 2, the entry was at frame 3, the return at
\* frame 6 and exactly one repetition is finalized, with best squat_depth 8
\* (0.08).
SquatScenario ==
  (exercise = "squat" /\ cooldown_frames = 2) =>
     /\ scen \in {1, 2} => (started = 0 /\ ~in_rep_position /\ rep_count = 0)
     /\ scen \in 3..5 => ( /\ in_rep_position /\ rep_count = 0 /\ started = 1
                           /\ rep_start_time = Some(3) )
     /\ scen = 4 => best_metrics.squat_depth = 8
     /\ scen = 6 => ( /\ ~in_rep_position /\ returned_to_start
                      /\ rep_count = 1 /\ started = 1
                      /\ rep_start_time = Some(3)
                      /\ Len(log) = 1 /\ log[1].time = 6 /\ log[1].rep_num = 1
                      /\ Len(completed) = 1
                      /\ completed[1].metrics.squat_depth = 8
                      /\ best_metrics.squat_depth = 8 )

SquatScenarioWitness ==
  exercise = "squat" /\ cooldown_frames = 2 /\ scen = 6 /\ now = 6


\* C6: tie-break. A frame at the starting position that finds the detector
\* active takes the return transition, whatever is_in_rep_position says; no
\* call both finalizes a repetition and begins one, and a call that leaves the
\* rep position starts no cycle, so that the earliest re-entry is the next
\* frame.
TieBreak ==
  [][ IsExercise =>
        /\ ~(rep_count' > rep_count /\ started' > started)
        /\ (in_rep_position /\ ~in_rep_position')
             => (started' = started /\ rep_start_time' = rep_start_time)
        /\ ( /\ ValidStep
             /\ in_rep_position
             /\ IsAtStartingPosition(exercise, frame'.data) )
             => (~in_rep_position' /\ returned_to_start' /\ started' = started) ]_vars

\* a frame with both predicates true has just finalized a repetition and the
\* detector is Ready, not active again
TieBreakWitness ==
  /\ IsExercise /\ frame.joints
  /\ IsInRepPosition(exercise, frame.data)
  /\ IsAtStartingPosition(exercise, frame.data)
  /\ last_fire = Some(now) /\ rep_count = started
  /\ ~in_rep_position /\ returned_to_start

\* C7 as stated: frames_since_last_rep advances by one on every frame the
\* producer delivers, frames without a pose included, and is reset to 0 by a
\* finalize only.
FramesSinceCountsEveryFrame ==
  [][ (IsExercise /\ now' = now + 1)
      => \/ frames_since_last_rep' = frames_since_last_rep + 1
         \/ (frames_since_last_rep' = 0 /\ rep_count' = rep_count + 1) ]_vars

\* C7 amended: frames_since_last_rep advances by one on every call of
\* on_joints_detected, that is on every frame with a detected pose, frames with
\* a required joint undetected included, and is reset to 0 by a finalize only;
\* a frame without a pose triggers no handler and leaves the counter as it
\* is, so the cooldown is measured in frames with a pose.
FramesSinceCountsHandlerCalls ==
  [][ (IsExercise /\ now' = now + 1)
      => IF frame'.pose
           THEN \/ frames_since_last_rep' = frames_since_last_rep + 1
                \/ (frames_since_last_rep' = 0 /\ rep_count' = rep_count + 1)
           ELSE frames_since_last_rep' = frames_since_last_rep ]_vars

\* a frame without a pose right after a finalize: the counter is still 0
FramesSinceCountsHandlerCallsWitness ==
  /\ IsExercise /\ frame = NoPose /\ rep_count = 1 /\ cooldown_frames > 0
  /\ last_fire = Some(now - 1) /\ frames_since_last_rep = 0

BestMetricsClearedOnReturn ==
  (IsExercise /\ ~in_rep_position) => best_metrics = EmptyDict

\* C9 amended: best_metrics is not cleared. A return transition, counted or
\* not, leaves it as it is, it keeps the values of the last cycle while the
\* detector is Ready, and the next entry replaces it by the metrics of the
\* entry frame.
BestMetricsKeptUntilEntry ==
  [][ IsExercise =>
        /\ (in_rep_position /\ ~in_rep_position')
             => (best_metrics' = best_metrics /\ best_metrics' # EmptyDict)
        /\ (~in_rep_position /\ ~in_rep_position') => best_metrics' = best_metrics
        /\ (~in_rep_position /\ in_rep_position')
             => best_metrics' = current_metrics' ]_vars

\* Ready again after an entry that replaced the best metrics of a finished
\* cycle, with the values of the last cycle still held
BestMetricsKeptUntilEntryWitness ==
  /\ IsExercise /\ ~in_rep_position /\ started = 2
  /\ best_metrics # EmptyDict
  /\ best_metrics = completed[Len(completed)].metrics
  /\ Len(completed) = 2 /\ completed[1].metrics # completed[2].metrics

\* C10: cooldown as a rate limit. Two consecutive firings of the registered
\* handler (finalized repetitions of the exercise detector, events of the
\* crossing, proximity or angle handler) are at least cooldown_frames frames
\* apart.
CooldownRateLimit ==
  [][ (last_fire # None /\ last_fire' # last_fire)
      => The(last_fire') - The(last_fire) >= cooldown_frames ]_vars

\* a second repetition finalized under a cooldown of two frames or more
CooldownRateLimitWitness ==
  /\ IsExercise /\ cooldown_frames >= 2 /\ rep_count = 2
  /\ last_fire = Some(now)
  /\ log[2].time - log[1].time >= cooldown_frames

\* the step delivers a frame to the registered handler of the given kind
HandlerStep(kind) == handler = kind /\ now' = now + 1 /\ frame'.pose

Fired == Len(events') > Len(events)

\* C11: the sign-crossing detector fires on a frame exactly when a previous
\* signal exists, its sign differs from the sign of the new signal and the
\* counter, as incremented for this frame, has reached cooldown_frames; a
\* firing is one event and resets the counter to 0; nothing fires before a
\* first signal was stored. For the signals +1, +1, -1, -1, +1 with a cooldown
\* of at most two frames it has fired twice, at frames 3 and 5.
CrossingFiresOnSignChange ==
  /\ [](handler = "crossing" =>
          /\ last_relative_position = None => events = << >>
          /\ (cooldown_frames <= 2 /\ scen = 5)
               => (Len(events) = 2 /\ events[1].time = 3 /\ events[2].time = 5))
  /\ [][ HandlerStep("crossing") =>
           /\ Fired <=> ( /\ frame'.joints
                          /\ last_relative_position # None
                          /\ Sign(The(last_relative_position)) # Sign(frame'.data)
                          /\ frames_since_last_event + 1 >= cooldown_frames )
           /\ Fired => ( /\ Len(events') = Len(events) + 1
                         /\ frames_since_last_event' = 0 )
           /\ ~Fired => frames_since_last_event' = frames_since_last_event + 1 ]_vars

\* the five signals were fed under a cooldown of two frames: two events
CrossingFiresOnSignChangeWitness ==
  /\ handler = "crossing" /\ cooldown_frames = 2 /\ scen = 5
  /\ Len(events) = 2 /\ frames_since_last_event = 0

\* C12 as stated: the proximity detector fires only on a frame whose distance
\* is below the threshold and whose preceding observed distance was at or
\* above it, with the debounce elapsed.
ProximityFiresAfterObservedFar ==
  [][ (HandlerStep("proximity") /\ Fired) =>
        /\ frame'.joints /\ frame'.data < threshold_distance
        /\ last_observed # None /\ The(last_observed) >= threshold_distance
        /\ frames_since_last_event + 1 >= cooldown_frames ]_vars

\* C12 amended: the proximity detector fires only on a frame whose distance is
\* below the threshold and whose preceding observed distance, if there is one,
\* was at or above it (was_close starts False, so the first observed distance
\* fires when it is below the threshold), never while the joints remain
\* close, and only with the debounce elapsed. For the distances 0.3, 0.05,
\* 0.04, 0.3 it has fired once, at frame 2.
ProximityFiresOnRisingEdge ==
  /\ [](handler = "proximity" =>
          /\ was_close = (last_observed # None /\ The(last_observed) < threshold_distance)
          /\ scen = 4 => (Len(events) = 1 /\ events[1].time = 2)
          /\ scen = 3 => Len(events) = 1)
  /\ [][ (HandlerStep("proximity") /\ Fired) =>
           /\ frame'.joints /\ frame'.data < threshold_distance
           /\ last_observed # None => The(last_observed) >= threshold_distance
           /\ frames_since_last_event + 1 >= cooldown_frames
           /\ Len(events') = Len(events) + 1 ]_vars

\* the four distances were fed: one event, and the joints are apart again
ProximityFiresOnRisingEdgeWitness ==
  /\ handler = "proximity" /\ scen = 4 /\ Len(events) = 1 /\ ~was_close

\* C13 as stated: the angle detector fires only on a frame where the boolean
\* is true and was false on the previous valid frame.
AngleFiresAfterObservedFalse ==
  [][ (HandlerStep("angle") /\ Fired) =>
        /\ frame'.joints
        /\ last_observed # None
        /\ IF comparison = "less"
             THEN frame'.data < angle_threshold /\ ~(The(last_observed) < angle_threshold)
             ELSE frame'.data > angle_threshold /\ ~(The(last_observed) > angle_threshold)
        /\ frames_since_last_event + 1 >= cooldown_frames
        /\ frames_since_last_event' = 0 ]_vars

\* C13 amended: the angle detector fires only on a frame where the boolean
\* (angle < threshold in mode 'less', angle > threshold in mode 'greater') is
\* true and was false on the previous valid frame, if there is one
\* (threshold_crossed starts False, so the first valid frame fires when the
\* boolean is true on it), only with frames_since_last_event >=
\* cooldown_frames, and the firing resets the counter to 0; it never fires
\* while the boolean stays true.
AngleFiresOnRisingEdge ==
  [][ (HandlerStep("angle") /\ Fired) =>
        /\ frame'.joints
        /\ IF comparison = "less"
             THEN /\ frame'.data < angle_threshold
                  /\ last_observed # None => ~(The(last_observed) < angle_threshold)
             ELSE /\ frame'.data > angle_threshold
                  /\ last_observed # None => ~(The(last_observed) > angle_threshold)
        /\ frames_since_last_event + 1 >= cooldown_frames
        /\ frames_since_last_event' = 0
        /\ Len(events') = Len(events) + 1 ]_vars

\* in mode 'greater' the angle rose above the threshold twice and stayed there
\* for a frame that did not fire
AngleFiresOnRisingEdgeWitness ==
  /\ handler = "angle" /\ comparison = "greater" /\ Len(events) = 2
  /\ threshold_crossed /\ frame.joints /\ frame.data > angle_threshold
  /\ last_fire # None /\ The(last_fire) < now

\* C14: a frame on which a required joint of the crossing, proximity or angle
\* handler is undetected fires nothing and leaves last_relative_position,
\* was_close and threshold_crossed as they are, while
\* frames_since_last_event advances by 1.
EdgeMissingJointRobustness ==
  [][ ( /\ handler \in {"crossing", "proximity", "angle"}
        /\ now' = now + 1 /\ frame'.pose /\ ~frame'.joints )
      => ( /\ events' = events
           /\ UNCHANGED <<last_relative_position, was_close, threshold_crossed>>
           /\ frames_since_last_event' = frames_since_last_event + 1 ) ]_vars

\* a gap after the crossing handler had stored a relative position and fired
EdgeMissingJointRobustnessWitness ==
  /\ handler = "crossing" /\ frame = MissingJoint
  /\ last_relative_position # None /\ Len(events) = 1
  /\ frames_since_last_event > 0

\* C20: best_metrics is seeded with the metrics of the entry frame and merged
\* by update_best_metrics on every later valid frame on which the detector
\* stays active; the return frame is not merged and a frame that is skipped
\* or has no pose contributes nothing. For SquatDetector the squat_depth held,
\* and handed over at a finalize, is the least squat_depth of the valid
\* frames from the entry up to the last frame before the return.
BestMetricsSeedAndMerge ==
  /\ []((exercise = "squat" /\ started > 0) => best_metrics.squat_depth = cycle_min)
  /\ [][ (IsExercise /\ now' = now + 1) =>
           /\ (~in_rep_position /\ in_rep_position')
                => (frame'.joints /\ best_metrics' = frame'.data)
           /\ (in_rep_position /\ in_rep_position' /\ frame'.joints)
                => best_metrics' = UpdateBestMetrics(exercise, frame'.data, best_metrics)
           /\ (in_rep_position /\ ~in_rep_position') => best_metrics' = best_metrics
           /\ ~frame'.joints => best_metrics' = best_metrics
           /\ (exercise = "squat" /\ rep_count' > rep_count)
                => completed'[rep_count'].metrics.squat_depth = cycle_min ]_vars

\* a squat entered at depth 0.10, went to 0.08, came back to 0.10 and was
\* finalized with 0.08 (the frames of ScenarioFrames, under a cooldown of 3)
BestMetricsSeedAndMergeWitness ==
  /\ exercise = "squat" /\ cooldown_frames = 3 /\ scen = 6
  /\ rep_count = 1 /\ last_fire = Some(now)
  /\ cycle_min = 8 /\ completed[1].metrics.squat_depth = 8

\* C18: for each of the ten registered detectors with its default thresholds
\* no metrics snapshot satisfies both is_in_rep_position and
\* is_at_starting_position.
PredicatesMutuallyExclusive ==
  verdict # None => ~(The(verdict).is_in_position /\ The(verdict).is_at_start)

\* a calf raise snapshot with the heel lifted and the ankle not extended: in
\* the rep position by the `or` of its predicate, and not at the start
PredicatesMutuallyExclusiveWitness ==
  /\ verdict # None /\ probe.ex = "calf_raise"
  /\ probe.m.heel_height = 10 /\ probe.m.ankle_angle = 90
  /\ The(verdict).is_in_position /\ ~The(verdict).is_at_start

InSession == sink_reliable = FALSE

Raises(error) ==
  Len(raised') = Len(raised) + 1 /\ raised'[Len(raised')].error = error

\* C15: sink unavailability. When the append of the log entry fails during a
\* finalize, the OSError is surfaced to the caller of on_joints_detected, and
\* rep_count has advanced by 1, frames_since_last_rep is 0 and the detector
\* is Ready; no entry is written and every later frame finds a consistent
\* detector (Ready or active, never both, with one log entry per repetition
\* whose append succeeded) that enters and finalizes as usual.
SinkFailureKeepsState ==
  /\ [](IsExercise =>
          /\ in_rep_position = ~returned_to_start
          /\ Len(log) <= rep_count /\ Len(completed) = Len(log)
          /\ \A i \in 1..Len(log) : log[i].rep_num \in 1..rep_count)
  /\ [][ ValidStep =>
           /\ (rep_count' # rep_count /\ log' = log)
                => ( /\ Raises("OSError")
                     /\ rep_count' = rep_count + 1
                     /\ frames_since_last_rep' = 0
                     /\ ~in_rep_position' /\ returned_to_start' )
           /\ raised' # raised
                => ( /\ Raises("OSError")
                     /\ in_rep_position
                     /\ IsAtStartingPosition(exercise, frame'.data)
                     /\ rep_count' = rep_count + 1 /\ log' = log )
           /\ ( /\ ~in_rep_position
                /\ IsInRepPosition(exercise, frame'.data)
                /\ ~IsAtStartingPosition(exercise, frame'.data) )
                => (in_rep_position' /\ started' = started + 1)
           /\ ( /\ in_rep_position
                /\ IsAtStartingPosition(exercise, frame'.data)
                /\ frames_since_last_rep + 1 >= cooldown_frames )
                => rep_count' = rep_count + 1 ]_vars

\* the append failed for the first repetition and succeeded for the second
SinkFailureKeepsStateWitness ==
  /\ InSession /\ IsExercise /\ rep_count = 2
  /\ Len(log) = 1 /\ log[1].rep_num = 2
  /\ Len(raised) = 1 /\ raised[1].error = "OSError"
  /\ ~in_rep_position /\ frames_since_last_rep = 0

\* a detector was built without an exception by this step
BuildsDetector ==
  /\ request' # None /\ The(request').builds = "exercise"
  /\ raised' = raised

\* C16: log initialization is idempotent. Building a detector whose log file
\* exists writes no header, leaves the content as it is and succeeds; over any
\* constructions and finalized repetitions on a log path that did not exist
\* the file holds the header block once, before every repetition line, and
\* a file that existed keeps its content in front of the repetition lines.
LogInitializationIdempotent ==
  /\ []( /\ IsExercise => LogFile # None
         /\ (initial_file = None /\ LogFile # None)
              => ( /\ The(LogFile)[1].kind = "header"
                   /\ \A i \in 2..Len(The(LogFile)) : The(LogFile)[i].kind = "rep" )
         /\ initial_file # None
              => ( /\ LogFile # None
                   /\ SubSeq(The(LogFile), 1, Len(The(initial_file))) = The(initial_file)
                   /\ \A i \in (Len(The(initial_file)) + 1)..Len(The(LogFile)) :
                         The(LogFile)[i].kind = "rep" ) )
  /\ [][ /\ (BuildsDetector /\ LogFile # None) => LogFile' = LogFile
         /\ (request' # None /\ Raises("OSError")) => LogFile = None
         /\ (request' # None /\ LogFile # None
                /\ The(request').arg \in EXERCISE_REGISTRY) => BuildsDetector ]_vars

\* the file did not exist; two detectors were built on it one after the other
\* and each logged a repetition
LogInitializationIdempotentWitness ==
  /\ InSession /\ IsExercise /\ initial_file = None
  /\ Len(The(LogFile)) = 3 /\ Len(log) = 1 /\ rep_count = 1
  /\ The(LogFile)[1].kind = "header" /\ The(LogFile)[2].kind = "rep"

\* C17: configuration errors are raised when the handler is built, never
\* while a frame is processed: JointCrossingHandler with an axis outside
\* axis_map and get_exercise_detector with an identifier outside
\* EXERCISE_REGISTRY raise ValueError and build nothing; a handler that is
\* built has the axis or the class that was asked for.
ConfigurationErrorsAtConstruction ==
  [][ /\ request' = None => ~Raises("ValueError")
      /\ request' # None =>
           LET r == The(request')
               valid == IF r.builds = "crossing" THEN r.arg \in axis_map
                        ELSE r.arg \in EXERCISE_REGISTRY
           IN /\ ~valid => ( /\ Raises("ValueError")
                             /\ UNCHANGED <<cfgvars, detvars, edgevars, filevars>> )
              /\ valid => ~Raises("ValueError")
              /\ (valid /\ raised' = raised)
                   => ( /\ handler' = r.builds
                        /\ r.builds = "crossing" => axis' = r.arg
                        /\ r.builds = "exercise" => exercise' = r.arg ) ]_vars

\* an axis 'w' was refused while a crossing handler on 'y' had fired
ConfigurationErrorsAtConstructionWitness ==
  /\ request # None /\ The(request).builds = "crossing" /\ The(request).arg = "w"
  /\ raised # << >> /\ raised[Len(raised)].error = "ValueError"
  /\ raised[Len(raised)].time = now
  /\ handler = "crossing" /\ axis = "y" /\ Len(events) = 1

\* C19 as stated: get_stats includes best_metrics if and only if the detector
\* is in the rep position.
StatsBestMetricsOnlyWhileActive ==
  (stats # None /\ The(stats).active)
    => (The(stats).best_metrics # None <=> The(stats).in_position)

\* C19 amended: get_stats includes best_metrics if and only if the detector's
\* best_metrics is not empty, that is from the first entry into the rep
\* position on: always while the detector is in the rep position, and also
\* while it is Ready after a return, because best_metrics is kept until the
\* next entry.
StatsBestMetricsSinceFirstEntry ==
  (stats # None /\ The(stats).active)
    => /\ The(stats).best_metrics # None <=> started > 0
       /\ The(stats).best_metrics # None => The(stats).best_metrics = Some(best_metrics)
       /\ The(stats).in_position => The(stats).best_metrics # None
       /\ The(stats).in_position = in_rep_position /\ The(stats).reps = rep_count

\* statistics asked for after a finalized repetition: Ready, with the best
\* metrics of that repetition
StatsBestMetricsSinceFirstEntryWitness ==
  /\ stats # None /\ The(stats).active /\ ~The(stats).in_position
  /\ The(stats).status = "Ready" /\ The(stats).reps = 1
  /\ The(stats).best_metrics # None

\* C30: for SquatDetector the best squat_depth held at every finalize is below
\* depth_threshold (0.15), so every finalized squat is graded 'Excellent - ATG'
\* or 'Good - Full depth / Parallel'; 'Fair' and 'Shallow' are never the
\* quality of a counted repetition, in the notification or in the log.
SquatGradedAtLeastGood ==
  /\ [](exercise = "squat" =>
          /\ \A i \in 1..Len(completed) :
               /\ completed[i].metrics.squat_depth < depth_threshold
               /\ completed[i].quality \in {"Excellent - ATG (Ass to Grass)",
                                            "Good - Full depth / Parallel"}
          /\ \A i \in 1..Len(log) :
               log[i].quality \in {"Excellent - ATG (Ass to Grass)",
                                   "Good - Full depth / Parallel"})
  /\ [][ (exercise = "squat" /\ rep_count' > rep_count) =>
           /\ best_metrics.squat_depth < depth_threshold
           /\ AssessRepQuality(exercise, best_metrics)
                \notin {"Fair - Just below parallel", "Shallow - Go deeper"} ]_vars

\* two finalized squats, the first graded 'Good' (best depth 0.10), the second
\* 'Excellent' (best depth 0.08)
SquatGradedAtLeastGoodWitness ==
  /\ exercise = "squat" /\ rep_count = 2 /\ Len(completed) = 2
  /\ completed[1].quality = "Good - Full depth / Parallel"
  /\ completed[2].quality = "Excellent - ATG (Ass to Grass)"

\* C29: for DumbbellFlyDetector the best wrist_distance is seeded below
\* wrist_distance_closed (0.15) at the entry and raised only on frames that
\* find the detector Active, are not at the starting position and have
\* elbow_angle > elbow_angle_min; it is at most wrist_distance_open (0.5) at
\* every finalize, so no finalized fly repetition is graded
\* 'Excellent - Full chest stretch' or 'Good - Good stretch'.
FlyNeverGradedGood ==
  /\ [](exercise = "dumbbell_fly" =>
          /\ best_metrics # EmptyDict
               => best_metrics.wrist_distance <= DumbbellFly_wrist_distance_open
          /\ \A i \in 1..Len(completed) :
               /\ completed[i].metrics.wrist_distance <= DumbbellFly_wrist_distance_open
               /\ completed[i].quality \notin {"Excellent - Full chest stretch",
                                               "Good - Good stretch"}
          /\ \A i \in 1..Len(log) :
               log[i].quality \notin {"Excellent - Full chest stretch",
                                      "Good - Good stretch"})
  /\ [][ (exercise = "dumbbell_fly" /\ now' = now + 1) =>
           /\ (~in_rep_position /\ in_rep_position')
                => best_metrics'.wrist_distance < DumbbellFly_wrist_distance_closed
           /\ (in_rep_position /\ best_metrics' # best_metrics) =>
                /\ frame'.joints
                /\ ~IsAtStartingPosition(exercise, frame'.data)
                /\ frame'.data.elbow_angle > DumbbellFly_elbow_angle_min
                /\ best_metrics'.wrist_distance > best_metrics.wrist_distance
           /\ rep_count' > rep_count
                => best_metrics.wrist_distance <= DumbbellFly_wrist_distance_open
         ]_vars

\* a fly that opened to 0.5 with straight elbows before it returned at 0.65:
\* finalized with 0.5 and graded 'Shallow - Open wider'
FlyNeverGradedGoodWitness ==
  /\ exercise = "dumbbell_fly" /\ rep_count = 1
  /\ completed[1].metrics.wrist_distance = 50
  /\ completed[1].quality = "Shallow - Open wider"
  /\ frame.data.wrist_distance = 65

StatsFollowFlags ==
  stats # None =>
    LET st == The(stats) IN
    IF handler = "exercise" /\ running
      THEN /\ st.active
           /\ st.reps = rep_count
           /\ st.instruction = GetInstruction
           /\ in_rep_position
                => /\ st.status = "In position"
                   /\ st.instruction = GetInPositionInstruction(exercise)
           /\ (~in_rep_position /\ ~returned_to_start)
                => /\ st.status = "Must return"
                   /\ st.instruction = GetReturnInstruction(exercise)
           /\ (~in_rep_position /\ returned_to_start)
                => /\ st.status = "Ready"
                   /\ st.instruction = GetReadyInstruction(exercise)
      ELSE ~st.active /\ st.reps = 0

\* the statistics of a running squat session that has counted a repetition
\* and is in the rep position again
StatsFollowFlagsWitness ==
  /\ stats # None /\ running /\ thread = "capturing"
  /\ The(stats).active /\ The(stats).reps = 1
  /\ The(stats).status = "In position"
  /\ The(stats).instruction = "FULL SQUAT - Hold at bottom"

\* C22: an unknown exercise identifier given to WebTracker.start through
\* /start_exercise is surfaced as a failure: the reply does not report
\* success, and no capture session is left running without a detector.
UnknownExerciseIsReported ==
  (request # None /\ The(request).arg \notin EXERCISE_REGISTRY) =>
    /\ response # None
    /\ ~The(response).success
    /\ ~(running /\ handler = "none" /\ thread \in {"starting", "capturing"})

PoseFrameStep ==
  /\ Len(frames_seen') = Len(frames_seen) + 1
  /\ frames_seen'[Len(frames_seen')] # None

\* the handler objects called for the last frame, in the order of the calls
CalledHandlers(record) == [i \in DOMAIN record |-> record[i].handler]

PreviousIsPrecedingFrame ==
  \A i \in DOMAIN invoked :
    /\ frames_seen # << >>
    /\ invoked[i].previous =
         IF Len(frames_seen) = 1 THEN None ELSE frames_seen[Len(frames_seen) - 1]
    /\ Some(invoked[i].landmarks) = frames_seen[Len(frames_seen)]

\* no pose, then pose 1, then pose 2 with two entries in the list: both calls
\* of the third frame were handed the landmarks of the second
PreviousIsPrecedingFrameWitness ==
  /\ frames_seen = <<None, Some(1), Some(2)>>
  /\ Len(invoked) = 2
  /\ invoked[1].previous = Some(1) /\ invoked[2].previous = Some(1)
  /\ prev_landmarks = Some(2)

\* the values added since the last reset that a window of the given capacity
\* holds: the most recent ones, in the order they were added
MostRecent(capacity) ==
  LET n == IF Len(added) < capacity THEN Len(added) ELSE capacity
  IN  SubSeq(added, Len(added) - n + 1, Len(added))

\* C25: after any calls of add and reset the window holds at most window_size
\* values, the most recently added ones in the order they were added; add
\* returns the mean of exactly those values; reset empties the window;
\* get_average returns None on an empty window and the mean otherwise, and
\* no call raises.
FixedCapacityFifo ==
  /\ Len(values) <= window_size
  /\ values = MostRecent(window_size)
  /\ average.result # "ZeroDivisionError"
  /\ average.call = "add" =>
       /\ MostRecent(window_size) # << >>
       /\ average.result = Mean(MostRecent(window_size))
  /\ average.call = "reset" => values = << >>
  /\ average.call = "get_average" =>
       average.result = IF values = << >> THEN None ELSE Mean(MostRecent(window_size))

\* the same for the windows that can hold a value
FixedCapacityFifoOfPositiveSize == window_size >= 1 => FixedCapacityFifo

\* the last frame shows the arms at the starting position
PressFrameAtStart(f) ==
  f # None /\ is_arms_at_starting_position(The(f).avg_elbow_angle, The(f).wrist_height)

\* C27: in the stand-alone shoulder press detector a repetition is completed
\* by lowering back down: press_count goes up, by one, and the press is logged
\* (when the log file takes the line) on a frame where the arms are back at
\* the starting position after an overhead lockout, and at no other frame.
PressCountedOnLowering ==
  [][press_count' # press_count =>
       /\ PressFrameAtStart(press_frame')
       /\ in_press_position
       /\ press_count' = press_count + 1
       /\ ~press_failed' => Len(press_log') = Len(press_log) + 1]_vars

\* what the detector does: a press is counted on the frame of the lockout,
\* provided the arms were at the starting position since the last count
PressCountedAtLockout ==
  [][press_count' # press_count =>
       /\ press_frame' # None
       /\ IsFullPress(The(press_frame').avg_elbow_angle, The(press_frame').wrist_height)
       /\ arms_returned /\ ~in_press_position
       /\ ~arms_returned' /\ in_press_position'
       /\ press_count' = press_count + 1]_vars

\* the step is a return transition: a valid frame at the starting position
\* finds the detector in the rep position
ReturnStep ==
  ValidStep /\ in_rep_position /\ IsAtStartingPosition(exercise, frame'.data)

\* C31 as stated: the first return transition of a new detector is finalized
\* however few frames came before it, and so is every return transition that
\* comes at least cooldown_frames frames after the previous finalize.
SpacedReturnIsFinalized ==
  [][ ( /\ ReturnStep
        /\ \/ started = 1
           \/ last_fire # None /\ now + 1 - The(last_fire) >= cooldown_frames )
      => rep_count' = rep_count + 1 ]_vars

\* C31 amended: the first return transition of a new detector is finalized
\* however few frames came before it, and so is every return transition that
\* comes at least cooldown_frames frames after the previous finalize when
\* each frame in between carried a pose; a frame without a pose does not
\* advance frames_since_last_rep and so lengthens the cooldown.
SpacedReturnWithPoseIsFinalized ==
  [][ ( /\ ReturnStep
        /\ \/ started = 1
           \/ last_fire # None /\ now + 1 - The(last_fire) >= cooldown_frames
                               /\ ~pose_lost )
      => rep_count' = rep_count + 1 ]_vars

\* cooldown of three frames: the first return came on the second frame and
\* was finalized, the second came exactly three frames later and was finalized
SpacedReturnWithPoseIsFinalizedWitness ==
  /\ IsExercise /\ cooldown_frames = 3
  /\ rep_count = 2 /\ Len(log) = 2
  /\ log[1].time = 2 /\ log[2].time = 5
  /\ ~pose_lost

\* C32: an edge inside the cooldown is dropped, not deferred. On every valid
\* frame, whatever the cooldown, the crossing handler stores the relative
\* position, the proximity handler was_close and the angle handler
\* threshold_crossed; and after an edge that did not fire no event is fired
\* for as long as the condition of that edge persists, the end of the
\* cooldown included.
EdgeInCooldownIsDropped ==
  [][ ( /\ handler \in {"crossing", "proximity", "angle"}
        /\ HandlerStep(handler) /\ frame'.joints )
      => ( /\ handler = "crossing" => last_relative_position' = Some(frame'.data)
           /\ handler = "proximity" => was_close' = ConditionOn(handler, frame'.data)
           /\ handler = "angle" => threshold_crossed' = ConditionOn(handler, frame'.data)
           /\ (edge_dropped /\ Persists(handler, frame'.data)) => ~Fired ) ]_vars

\* the joints came close inside a cooldown of three frames, nothing fired,
\* they have stayed close since and the cooldown has passed: still one event
EdgeInCooldownIsDroppedWitness ==
  /\ handler = "proximity" /\ cooldown_frames = 3
  /\ edge_dropped /\ was_close /\ frame.joints
  /\ frames_since_last_event > cooldown_frames
  /\ Len(events) = 1

\* C33 as stated: a crossing of the signal from one side to the other through
\* a frame whose signal is exactly zero fires exactly one event, for every
\* cooldown_frames >= 0.
ZeroCrossingFiresOnce ==
  (handler = "crossing" /\ zero_crossing # None /\ The(zero_crossing).over)
    => The(zero_crossing).events = 1

\* the step ends a crossing through zero: the signal leaves zero to the side
\* opposite to the one it came from
ZeroCrossingEnds ==
  /\ HandlerStep("crossing") /\ frame'.joints
  /\ zero_crossing # None /\ ~The(zero_crossing).over
  /\ frame'.data # 0 /\ Sign(frame'.data) = -The(zero_crossing).from

\* C33 amended: a crossing through a frame whose signal is exactly zero is two
\* changes of sign for the detector, one on the frame that reaches zero and
\* one on the frame that leaves it, and each fires exactly when the debounce
\* has elapsed on its frame. The crossing fires two events when the first
\* fired and cooldown_frames <= 1, two events only if the frames are at least
\* cooldown_frames apart, and no event when both frames fall into the
\* cooldown of an earlier event.
ZeroCrossingFiresPerSignChange ==
  /\ [](zero_crossing # None =>
          /\ handler = "crossing"
          /\ The(zero_crossing).events \in 0..2)
  /\ [][ ZeroCrossingEnds =>
           /\ Fired = (frames_since_last_event + 1 >= cooldown_frames)
           /\ The(zero_crossing').events =
                The(zero_crossing).events + (IF Fired THEN 1 ELSE 0)
           /\ (The(zero_crossing).events = 1 /\ cooldown_frames <= 1) => Fired
           /\ (The(zero_crossing).events = 1 /\ Fired)
                => now + 1 - The(zero_crossing).at >= cooldown_frames ]_vars

\* cooldown of one frame, the signals 1, 0, -1: one crossing, two events, on
\* the second and on the third frame
ZeroCrossingFiresPerSignChangeWitness ==
  /\ handler = "crossing" /\ cooldown_frames = 1 /\ now = 3
  /\ zero_crossing = Some([from |-> 1, at |-> 2, events |-> 2, over |-> TRUE])
  /\ Len(events) = 2 /\ events[1].time = 2 /\ events[2].time = 3

\* C36: whenever WebTracker.running is True a capture loop is alive; when the
\* loop ends on its own (the camera cannot be opened, a frame cannot be read,
\* the handler raises) running becomes False, and get_stats does not report a
\* session without a loop as active.
RunningMeansLoopAlive ==
  /\ running => thread \in {"starting", "capturing"}
  /\ (stats # None /\ The(stats).active) => thread \in {"starting", "capturing"}

\* C34: after a restart at most one capture thread is in the loop, a thread
\* that stop has told to end does not go on looping, and the handlers of a
\* start are called by the thread of that start only.
OneCaptureLoop ==
  /\ Cardinality(Looping) <= 1
  /\ resumed = {}
  /\ \A pair \in drove : pair[1] = pair[2]

\* C35: under every interleaving of get_stats, the capture loop and stop or
\* start, get_stats comes back with its dictionary and the capture loop ends
\* by leaving its while loop; neither reads an attribute of a tracker or
\* detector that stop has set to None.
NoUseAfterStop ==
  /\ polling # "crashed"
  /\ \A i \in CaptureThreads : loops[i] # "crashed"

\* C37 (src/squat.py, as claimed): whatever thresholds the detector was built
\* with, one call of on_joints_detected never both counts a squat and starts a
\* new one, squat_count grows by at most 1 in a call, and every counted squat
\* has an entry of its own before it (never more squats than entries, and a
\* squat counted only by a call that found the detector in the squat position)
OneCallCountsOrEnters ==
  /\ [](~(squat_step.counted /\ squat_step.entered))
  /\ [](squat_count <= squat_entries)
  /\ [][/\ squat_count' <= squat_count + 1
        /\ squat_count' > squat_count => in_squat_position]_vars

\* C38: whenever a detector is in the rep position, the entry that put it
\* there has left its timestamp in rep_start_time and metrics of that rep in
\* best_metrics (not the empty dictionary of __init__, and with the fields of
\* the metrics of a frame); so a finalize, which only happens to a detector in
\* the rep position, finds both. This holds from the first frame on, also when
\* the first frame is in the rep position and when frames are skipped.
ActiveHasEntryData ==
  /\ [](IsExercise /\ in_rep_position =>
          /\ rep_start_time # None
          /\ The(rep_start_time) <= now
          /\ best_metrics # EmptyDict
          /\ DOMAIN best_metrics = DOMAIN current_metrics)
  /\ [][IsExercise /\ rep_count' # rep_count =>
          /\ in_rep_position
          /\ rep_start_time # None
          /\ best_metrics # EmptyDict]_vars

\* the first frame was in the rep position, a later frame was skipped for a
\* missing joint, and the detector is still in the rep position
ActiveHasEntryDataWitness ==
  /\ IsExercise
  /\ in_rep_position
  /\ rep_count = 0
  /\ rep_start_time = Some(1)
  /\ now >= 2
  /\ frame.pose /\ ~frame.joints
  /\ best_metrics # EmptyDict

====
